---------------------------- MODULE Spec2Model ----------------------------
(***************************************************************************)
(* Map tile tree / imagery provider pipeline of the frontend               *)
(* (src/unnamed/part_002): QuadId serialisation, coverage and attribution  *)
(* matching, ImageryProvider.loadTile, WebMapTileLoader.loadTileContent,   *)
(* BingImageryProvider.initialize and the background map tile tree cache.  *)
(*                                                                         *)
(* Strings are sequences of one-character strings; a JavaScript number is  *)
(* a record [nan, v] so that parseInt's NaN is a value of its own.         *)
(***************************************************************************)
EXTENDS Integers, Sequences, FiniteSets, TLC

(***************************************************************************)
(* Bounds of the model.                                                    *)
(***************************************************************************)
MaxLevel == 3
MaxCoord == 11
MaxStrLen == 4
MaxCovLevel == 2
MaxAttributions == 2
MaxTiles == 2
MaxRefs == 2
MaxBias == 1
MaxSelected == 3

VARIABLES
  assertionsEnabled,  \* the build: TRUE when assert() throws on a false condition
  qOrigin,            \* "id": the run starts from a QuadId; "raw": from a raw string
  qPhase,             \* "start" | "serialized" | "parsed" | "thrown"
  qSrc,               \* the QuadId the run starts from (qOrigin = "id")
  qStr,               \* the content id string
  qOut,               \* the QuadId createFromContentId returned
  cKind,              \* "overlaps": a Coverage.overlaps run; "attributions": getMatchingAttributions
  cPhase,             \* "start" | "done" | "thrown"
  cQuad,              \* the QuadId given to Coverage.overlaps
  cCoverage,          \* the Coverage it is called on
  cOverlaps,          \* what Coverage.overlaps returned
  aAttributions,      \* BingImageryProvider._attributions: [defined, list]
  aTiles,             \* the content ids of the tiles given to getMatchingAttributions
  aMatching,          \* the attributions returned, as indexes into _attributions
  pKind,              \* the loader's ImageryProvider: "BingProvider" | "MapBoxProvider"
  pSubdomains,        \* BingImageryProvider._urlSubdomains: [defined, count]
  pMissingTileData,   \* BingImageryProvider._missingTileData: [defined, data]
  loads,              \* per tile: the state of its request and of its content load
  ecefDefined,        \* whether iModel.ecefLocation is defined
  refKey,             \* per tile tree reference: the identity key its settings give
  refOwner,           \* per reference: the owner its last treeOwner access returned (0: none yet)
  owners,             \* iModel.tiles: the tile tree owners, each with its creation in flight
  nextTransientId,    \* iModel.transientIds.next
  ordPhase,           \* "start" | "done": a run of compareTileTreeIds over three keys
  ordKeys,            \* the three identity keys <<a, b, c>>
  ordCmp,             \* the results [ab, ba, bc, ac] of compareTileTreeIds
  kPhase,             \* "start" | "done" | "thrown": a run of constructUrl on a Bing provider
  kTile,              \* the tile address [row, column, zoomLevel]
  kUrl,               \* what constructUrl returned
  selPhase,           \* "start" | "done": a run of processSelectedTiles
  selInput,           \* the selected tiles as they were passed in, in the order their loads completed
  selArray,           \* the array that was passed in (Array.sort sorts it in place)
  selReturned,        \* the tiles processSelectedTiles returned
  mEcef,              \* whether iModel.ecefLocation is defined, for the imagery reference
  mProviders,         \* the ImageryProvider instances an application gives to the reference
  mRef,               \* the MapImageryTileTreeReference: [provider, groundBias, supplier]
  mSuppliers,         \* the ImageryTreeSupplier objects made so far, each with its provider
  mOwners,            \* iModel.tiles: the owners of the imagery suppliers' trees
  mProbes,            \* per provider: its missing-tile probes whose request is in flight
  mNextId,            \* iModel.transientIds.next, for the imagery reference
  mAccess,             \* the last treeOwner access: <<>> or <<[provider, groundBias, supplier, id, owner, repeated, same]>>
  vLogoUrl,           \* BingImageryProvider._logoUrl, for the decoration runs
  vElements,          \* _copyrightElementByViewportId: per viewport id, <<>> or <<[logoImage, attribution]>>
  vCreated,           \* the number of DOM elements created so far (an element is named by its number)
  vReturn,             \* the last getCopyrightImage / getCopyrightMessage call: <<>> or <<[op, viewportId, seen, created, value]>>
  sKind,              \* the provider of a tile-addressing run: "BingProvider" | "EPSG3857Provider"
  sZoomMax,           \* its maximumZoomLevel
  sTile,              \* the tile address [row, column, zoomLevel]
  sPhase,             \* "start" | "done"
  sOut                \* what the run computed: [mapSize, leftGrid, topGrid, masks, key]

quadVars == <<qOrigin, qPhase, qSrc, qStr, qOut>>
covVars == <<cKind, cPhase, cQuad, cCoverage, cOverlaps, aAttributions, aTiles, aMatching>>
loadVars == <<pKind, pSubdomains, pMissingTileData, loads>>
treeVars == <<ecefDefined, refKey, refOwner, owners, nextTransientId>>
ordVars == <<ordPhase, ordKeys, ordCmp>>
keyVars == <<kPhase, kTile, kUrl>>
selVars == <<selPhase, selInput, selArray, selReturned>>
imgVars == <<mEcef, mProviders, mRef, mSuppliers, mOwners, mProbes, mNextId, mAccess>>
copyVars == <<vLogoUrl, vElements, vCreated, vReturn>>
shiftVars == <<sKind, sZoomMax, sTile, sPhase, sOut>>
vars == <<assertionsEnabled, quadVars, covVars, loadVars, treeVars, ordVars, keyVars, selVars, imgVars, copyVars, shiftVars>>
\* What the actions of one specification leave alone.
notQuad == <<covVars, loadVars, treeVars, ordVars, keyVars, selVars, imgVars, copyVars, shiftVars>>
notCov == <<quadVars, loadVars, treeVars, ordVars, keyVars, selVars, imgVars, copyVars, shiftVars>>
notLoad == <<quadVars, covVars, treeVars, ordVars, keyVars, selVars, imgVars, copyVars, shiftVars>>
notTree == <<quadVars, covVars, loadVars, ordVars, keyVars, selVars, imgVars, copyVars, shiftVars>>
notOrd == <<quadVars, covVars, loadVars, treeVars, keyVars, selVars, imgVars, copyVars, shiftVars>>
notKey == <<quadVars, covVars, loadVars, treeVars, ordVars, selVars, imgVars, copyVars, shiftVars>>
notSel == <<quadVars, covVars, loadVars, treeVars, ordVars, keyVars, imgVars, copyVars, shiftVars>>
notImg == <<quadVars, covVars, loadVars, treeVars, ordVars, keyVars, selVars, copyVars, shiftVars>>
notCopy == <<quadVars, covVars, loadVars, treeVars, ordVars, keyVars, selVars, imgVars, shiftVars>>
notShift == <<quadVars, covVars, loadVars, treeVars, ordVars, keyVars, selVars, imgVars, copyVars>>

(***************************************************************************)
(* JavaScript numbers and strings.                                         *)
(***************************************************************************)
Num(n) == [nan |-> FALSE, v |-> n]
NaN == [nan |-> TRUE, v |-> 0]

DigitChars == <<"0", "1", "2", "3", "4", "5", "6", "7", "8", "9">>
IsDigit(c) == \E i \in 1..10 : DigitChars[i] = c
DigitValue(c) == (CHOOSE i \in 1..10 : DigitChars[i] = c) - 1

RECURSIVE Digits(_)
Digits(n) ==
  IF n < 10 THEN <<DigitChars[n + 1]>>
  ELSE Digits(n \div 10) \o <<DigitChars[(n % 10) + 1]>>

\* Number.prototype.toString, as applied by string concatenation (level + "_").
NumberToString(x) ==
  IF x.nan THEN <<"N", "a", "N">>
  ELSE IF x.v < 0 THEN <<"-">> \o Digits(-x.v)
  ELSE Digits(x.v)

\* String.prototype.split on a one-character separator.
RECURSIVE Split(_, _)
Split(s, sep) ==
  IF \A i \in 1..Len(s) : s[i] # sep THEN <<s>>
  ELSE LET k == CHOOSE i \in 1..Len(s) :
                  s[i] = sep /\ \A j \in 1..(i - 1) : s[j] # sep
       IN <<SubSeq(s, 1, k - 1)>> \o Split(SubSeq(s, k + 1, Len(s)), sep)

RECURSIVE SkipWhite(_)
SkipWhite(s) ==
  IF s # <<>> /\ Head(s) = " " THEN SkipWhite(Tail(s)) ELSE s

RECURSIVE DigitPrefix(_)
DigitPrefix(s) ==
  IF s # <<>> /\ IsDigit(Head(s)) THEN <<Head(s)>> \o DigitPrefix(Tail(s)) ELSE <<>>

RECURSIVE DigitsValue(_)
DigitsValue(d) ==
  IF d = <<>> THEN 0
  ELSE 10 * DigitsValue(SubSeq(d, 1, Len(d) - 1)) + DigitValue(d[Len(d)])

\* parseInt(s, 10): leading white space, an optional sign, the longest run of
\* decimal digits; NaN when that run is empty.
ParseInt(s) ==
  LET t == SkipWhite(s)
      neg == t # <<>> /\ Head(t) = "-"
      u == IF t # <<>> /\ Head(t) \in {"-", "+"} THEN Tail(t) ELSE t
      d == DigitPrefix(u)
  IN IF d = <<>> THEN NaN
     ELSE Num(IF neg THEN 0 - DigitsValue(d) ELSE DigitsValue(d))

(***************************************************************************)
(* QuadId.                                                                 *)
(***************************************************************************)
QuadId(level, column, row) == [level |-> level, column |-> column, row |-> row]

NoQuad == QuadId(Num(0), Num(0), Num(0))

\* get isValid() { return this.level >= 0; }   (NaN >= 0 is false)
isValid(q) == ~q.level.nan /\ q.level.v >= 0

contentIdSwapped(q) ==
  NumberToString(q.level) \o <<"_">> \o NumberToString(q.row)
    \o <<"_">> \o NumberToString(q.column)

\* get contentId() { return this.level + "_" + this.column + "_" + this.row; }
contentId(q) ==
  NumberToString(q.level) \o <<"_">> \o NumberToString(q.column)
    \o <<"_">> \o NumberToString(q.row)

\* assert(condition): throws in a build with assertions enabled, and does
\* nothing otherwise.
assertThrows(enabled, condition) == enabled /\ ~condition

createFromContentIdAtLeast(enabled, stringId) ==
  LET idParts == Split(stringId, "_")
  IN IF Len(idParts) < 3
     THEN IF assertThrows(enabled, FALSE)
          THEN [thrown |-> TRUE, quad |-> QuadId(Num(-1), Num(-1), Num(-1))]
          ELSE [thrown |-> FALSE, quad |-> QuadId(Num(-1), Num(-1), Num(-1))]
     ELSE [thrown |-> FALSE,
           quad |-> QuadId(ParseInt(idParts[1]), ParseInt(idParts[2]),
                           ParseInt(idParts[3]))]

\* QuadId.createFromContentId; the outcome is the returned QuadId, or thrown.
createFromContentId(enabled, stringId) ==
  LET idParts == Split(stringId, "_")
  IN IF 3 # Len(idParts)
     THEN IF assertThrows(enabled, FALSE)
          THEN [thrown |-> TRUE, quad |-> QuadId(Num(-1), Num(-1), Num(-1))]
          ELSE [thrown |-> FALSE, quad |-> QuadId(Num(-1), Num(-1), Num(-1))]
     ELSE [thrown |-> FALSE,
           quad |-> QuadId(ParseInt(idParts[1]), ParseInt(idParts[2]),
                           ParseInt(idParts[3]))]

(***************************************************************************)
(* The tiling scheme, Coverage and BingAttribution.                        *)
(*                                                                         *)
(* Longitudes and latitudes are measured in units of 1/16 of the scheme's  *)
(* extent, a strictly increasing re-scaling of degrees: Coverage.overlaps  *)
(* only compares them.                                                     *)
(***************************************************************************)
WorldHalf == 8

RECURSIVE Pow2(_)
Pow2(n) == IF n = 0 THEN 1 ELSE 2 * Pow2(n - 1)

\* WebMercatorTilingScheme.tileXYToCartographic: column 0 is the west edge,
\* row 0 the north edge (rowZeroAtTop); the result is [x: longitude, y: latitude].
tileXYToCartographic(x, y, level) ==
  [x |-> (x * 2 * WorldHalf) \div Pow2(level) - WorldHalf,
   y |-> WorldHalf - (y * 2 * WorldHalf) \div Pow2(level)]

Min(a, b) == IF a <= b THEN a ELSE b
Max(a, b) == IF a >= b THEN a ELSE b

\* Range2d.createNull() extended by two points.
Range2dOf(p, q) ==
  [low |-> [x |-> Min(p.x, q.x), y |-> Min(p.y, q.y)],
   high |-> [x |-> Max(p.x, q.x), y |-> Max(p.y, q.y)]]

\* QuadId.getLatLongRange
getLatLongRange(q) ==
  Range2dOf(tileXYToCartographic(q.column.v, q.row.v, q.level.v),
            tileXYToCartographic(q.column.v + 1, q.row.v + 1, q.level.v))

Coverage(llLat, llLon, urLat, urLon, zmin, zmax) ==
  [lowerLeftLatitude |-> llLat, lowerLeftLongitude |-> llLon,
   upperRightLatitude |-> urLat, upperRightLongitude |-> urLon,
   minimumZoomLevel |-> zmin, maximumZoomLevel |-> zmax]

overlapsStrict(cov, q) ==
  LET range == getLatLongRange(q)
  IN IF q.level.v < cov.minimumZoomLevel THEN FALSE
     ELSE IF q.level.v > cov.maximumZoomLevel THEN FALSE
     ELSE IF range.low.x >= cov.upperRightLongitude THEN FALSE
     ELSE IF range.low.y >= cov.upperRightLatitude THEN FALSE
     ELSE IF range.high.x <= cov.lowerLeftLongitude THEN FALSE
     ELSE IF range.high.y <= cov.lowerLeftLatitude THEN FALSE
     ELSE TRUE

\* Coverage.overlaps
overlaps(cov, q) ==
  LET range == getLatLongRange(q)
  IN IF q.level.v < cov.minimumZoomLevel THEN FALSE
     ELSE IF q.level.v > cov.maximumZoomLevel THEN FALSE
     ELSE IF range.low.x > cov.upperRightLongitude THEN FALSE
     ELSE IF range.low.y > cov.upperRightLatitude THEN FALSE
     ELSE IF range.high.x < cov.lowerLeftLongitude THEN FALSE
     ELSE IF range.high.y < cov.lowerLeftLatitude THEN FALSE
     ELSE TRUE

\* BingAttribution.matchesTile: an attribution is its sequence of coverages;
\* the outcome is [thrown, matches].
matchesTile(enabled, coverages, tileContentId) ==
  LET r == createFromContentId(enabled, tileContentId)
  IN IF r.thrown THEN [thrown |-> TRUE, matches |-> FALSE]
     ELSE [thrown |-> FALSE,
           matches |-> \E i \in 1..Len(coverages) : overlaps(coverages[i], r.quad)]

\* The two loops of getMatchingAttributions: `deleted` holds the indexes
\* deleted from unmatchedSet, `matching` the attributions pushed so far.
RECURSIVE MatchLoop(_, _, _, _, _, _, _)
MatchLoop(enabled, attrs, tiles, iTile, iAttr, deleted, matching) ==
  IF iTile > Len(tiles) THEN [thrown |-> FALSE, matching |-> matching]
  ELSE IF iAttr > Len(attrs)
  THEN MatchLoop(enabled, attrs, tiles, iTile + 1, 1, deleted, matching)
  ELSE IF iAttr \in deleted
  THEN MatchLoop(enabled, attrs, tiles, iTile, iAttr + 1, deleted, matching)
  ELSE LET m == matchesTile(enabled, attrs[iAttr], tiles[iTile])
       IN IF m.thrown THEN [thrown |-> TRUE, matching |-> matching]
          ELSE IF m.matches
          THEN MatchLoop(enabled, attrs, tiles, iTile, iAttr + 1,
                         deleted \cup {iAttr}, Append(matching, iAttr))
          ELSE MatchLoop(enabled, attrs, tiles, iTile, iAttr + 1, deleted, matching)

RECURSIVE MatchLoopNoDelete(_, _, _, _, _, _, _)
MatchLoopNoDelete(enabled, attrs, tiles, iTile, iAttr, deleted, matching) ==
  IF iTile > Len(tiles) THEN [thrown |-> FALSE, matching |-> matching]
  ELSE IF iAttr > Len(attrs)
  THEN MatchLoopNoDelete(enabled, attrs, tiles, iTile + 1, 1, deleted, matching)
  ELSE LET m == matchesTile(enabled, attrs[iAttr], tiles[iTile])
       IN IF m.thrown THEN [thrown |-> TRUE, matching |-> matching]
          ELSE IF m.matches
          THEN MatchLoopNoDelete(enabled, attrs, tiles, iTile, iAttr + 1,
                                 deleted, Append(matching, iAttr))
          ELSE MatchLoopNoDelete(enabled, attrs, tiles, iTile, iAttr + 1,
                                 deleted, matching)

getMatchingAttributionsNoDelete(enabled, attributions, tiles) ==
  IF ~attributions.defined THEN [thrown |-> FALSE, matching |-> <<>>]
  ELSE MatchLoopNoDelete(enabled, attributions.list, tiles, 1, 1, {}, <<>>)

\* BingImageryProvider.getMatchingAttributions
getMatchingAttributions(enabled, attributions, tiles) ==
  IF ~attributions.defined THEN [thrown |-> FALSE, matching |-> <<>>]
  ELSE MatchLoop(enabled, attributions.list, tiles, 1, 1, {}, <<>>)

(***************************************************************************)
(* ImageryProvider: constructUrl, matchesMissingTile, loadTile.            *)
(***************************************************************************)
SampleStride == 10
WordBits == 32

Undefined == [defined |-> FALSE, data |-> <<>>, format |-> "none"]
ImageSource(data, format) == [defined |-> TRUE, data |-> data, format |-> format]

\* Bit k of a non-negative integer.
RECURSIVE Bit(_, _)
Bit(n, k) == IF k = 0 THEN n % 2 ELSE Bit(n \div 2, k - 1)

\* (tile & (1 << shift)) !== 0 for a coordinate below 2^31: the shift count of
\* << is taken modulo 32.
MaskedBit(tile, shift) == Bit(tile, shift % WordBits)

QuadKeyDigitsSwapped(tileX, tileY, zoomLevel) ==
  [k \in 1..zoomLevel |->
     DigitChars[1 + 2 * MaskedBit(tileX, zoomLevel - k) + MaskedBit(tileY, zoomLevel - k)]]

QuadKeyDigitsReversed(tileX, tileY, zoomLevel) ==
  [k \in 1..zoomLevel |->
     DigitChars[1 + MaskedBit(tileX, k - 1) + 2 * MaskedBit(tileY, k - 1)]]

\* for (i = zoomLevel; i > 0; i--): one digit per level, most significant
\* first; mask = 1 << (i - 1).
RECURSIVE QuadKeyDigits(_, _, _)
QuadKeyDigits(tileX, tileY, i) ==
  IF i <= 0 THEN <<>>
  ELSE LET xBit == IF MaskedBit(tileX, i - 1) # 0 THEN 1 ELSE 0
           yBit == IF MaskedBit(tileY, i - 1) # 0 THEN 2 ELSE 0
       IN <<DigitChars[1 + xBit + yBit]>> \o QuadKeyDigits(tileX, tileY, i - 1)

tileXYToQuadKeySwapped(enabled, tileX, tileY, zoomLevel) ==
  IF assertThrows(enabled, 0 # zoomLevel) THEN [thrown |-> TRUE, key |-> <<>>]
  ELSE [thrown |-> FALSE, key |-> QuadKeyDigitsSwapped(tileX, tileY, zoomLevel)]

tileXYToQuadKeyReversed(enabled, tileX, tileY, zoomLevel) ==
  IF assertThrows(enabled, 0 # zoomLevel) THEN [thrown |-> TRUE, key |-> <<>>]
  ELSE [thrown |-> FALSE, key |-> QuadKeyDigitsReversed(tileX, tileY, zoomLevel)]

\* BingImageryProvider.tileXYToQuadKey; assert(0 !== zoomLevel) comes first.
tileXYToQuadKey(enabled, tileX, tileY, zoomLevel) ==
  IF assertThrows(enabled, 0 # zoomLevel) THEN [thrown |-> TRUE, key |-> <<>>]
  ELSE [thrown |-> FALSE, key |-> QuadKeyDigits(tileX, tileY, zoomLevel)]

\* constructUrl: the url is the parts that vary, [subdomain, path]. Bing reads
\* _urlSubdomains!.length, a TypeError when the metadata gave no subdomains;
\* an index into an empty array reads undefined (subdomain 0 here).
constructUrl(enabled, kind, subdomains, row, column, zoomLevel) ==
  IF kind = "BingProvider"
  THEN LET quadKey == tileXYToQuadKey(enabled, column, row, zoomLevel)
       IN IF quadKey.thrown \/ ~subdomains.defined
          THEN [thrown |-> TRUE, subdomain |-> 0, path |-> <<>>]
          ELSE [thrown |-> FALSE,
                subdomain |-> IF subdomains.count = 0 THEN 0
                              ELSE 1 + ((row + column) % subdomains.count),
                path |-> quadKey.key]
  ELSE [thrown |-> FALSE, subdomain |-> 0,
        path |-> NumberToString(Num(zoomLevel)) \o <<"/">> \o NumberToString(Num(column))
                   \o <<"/">> \o NumberToString(Num(row))]

BingMatchesMissingTileEveryByte(missing, tileData) ==
  IF ~missing.defined THEN FALSE
  ELSE IF Len(tileData) # Len(missing.data) THEN FALSE
  ELSE \A i \in 1..Len(tileData) : missing.data[i] = tileData[i]

BingMatchesMissingTileUnsetMatches(missing, tileData) ==
  IF ~missing.defined THEN TRUE
  ELSE IF Len(tileData) # Len(missing.data) THEN FALSE
  ELSE \A i \in 1..Len(tileData) : ((i - 1) % SampleStride = 0) => missing.data[i] = tileData[i]

\* for (let i = 0; i < tileData.length; i += 10): the byte at offset i is
\* the element i + 1 here.
RECURSIVE MissingTileLoop(_, _, _)
MissingTileLoop(missingData, tileData, i) ==
  IF ~(i < Len(tileData)) THEN TRUE
  ELSE IF missingData[i + 1] # tileData[i + 1] THEN FALSE
  ELSE MissingTileLoop(missingData, tileData, i + SampleStride)

\* BingImageryProvider.matchesMissingTile
BingMatchesMissingTile(missing, tileData) ==
  IF ~missing.defined THEN FALSE
  ELSE IF Len(tileData) # Len(missing.data) THEN FALSE
  ELSE MissingTileLoop(missing.data, tileData, 0)

\* ImageryProvider.matchesMissingTile (false), overridden by Bing.
matchesMissingTile(kind, missing, tileData) ==
  IF kind = "BingProvider" THEN BingMatchesMissingTile(missing, tileData) ELSE FALSE

\* A response: the request failed (ok = FALSE), or gave a body and a content-type.
FailedResponse == [ok |-> FALSE, body |-> <<>>, contentType |-> "none"]
OkResponse(body, contentType) == [ok |-> TRUE, body |-> body, contentType |-> contentType]

\* The try block of loadTile from the awaited request on: what it returns, or
\* thrown; asserted records that assert(false, "Unknown image type") was reached.
loadTileTry(enabled, kind, missing, tileResponse) ==
  IF ~tileResponse.ok
  THEN [thrown |-> TRUE, value |-> Undefined, asserted |-> FALSE]
  ELSE IF Len(tileResponse.body) = 0
  THEN [thrown |-> FALSE, value |-> Undefined, asserted |-> FALSE]
  ELSE IF matchesMissingTile(kind, missing, tileResponse.body)
  THEN [thrown |-> FALSE, value |-> Undefined, asserted |-> FALSE]
  ELSE IF tileResponse.contentType = "image/jpeg"
  THEN [thrown |-> FALSE, value |-> ImageSource(tileResponse.body, "Jpeg"), asserted |-> FALSE]
  ELSE IF tileResponse.contentType = "image/png"
  THEN [thrown |-> FALSE, value |-> ImageSource(tileResponse.body, "Png"), asserted |-> FALSE]
  ELSE [thrown |-> assertThrows(enabled, FALSE), value |-> Undefined, asserted |-> TRUE]

loadTileTryFormatFirst(enabled, kind, missing, tileResponse) ==
  IF ~tileResponse.ok
  THEN [thrown |-> TRUE, value |-> Undefined, asserted |-> FALSE]
  ELSE IF tileResponse.contentType \notin {"image/jpeg", "image/png"}
  THEN [thrown |-> assertThrows(enabled, FALSE), value |-> Undefined, asserted |-> TRUE]
  ELSE IF Len(tileResponse.body) = 0
  THEN [thrown |-> FALSE, value |-> Undefined, asserted |-> FALSE]
  ELSE IF matchesMissingTile(kind, missing, tileResponse.body)
  THEN [thrown |-> FALSE, value |-> Undefined, asserted |-> FALSE]
  ELSE [thrown |-> FALSE,
        value |-> ImageSource(tileResponse.body,
                              IF tileResponse.contentType = "image/jpeg" THEN "Jpeg" ELSE "Png"),
        asserted |-> FALSE]

loadTileNoCatch(enabled, kind, missing, tileResponse) ==
  LET r == loadTileTry(enabled, kind, missing, tileResponse)
  IN [rejected |-> r.thrown, value |-> r.value, asserted |-> r.asserted]

loadTileFormatFirst(enabled, kind, missing, tileResponse) ==
  LET r == loadTileTryFormatFirst(enabled, kind, missing, tileResponse)
  IN [rejected |-> FALSE, value |-> IF r.thrown THEN Undefined ELSE r.value,
      asserted |-> r.asserted]

\* ImageryProvider.loadTile once its request has settled: try { ... }
\* catch (error) { return undefined; }
loadTile(enabled, kind, missing, tileResponse) ==
  LET r == loadTileTry(enabled, kind, missing, tileResponse)
  IN [rejected |-> FALSE, value |-> IF r.thrown THEN Undefined ELSE r.value,
      asserted |-> r.asserted]

(***************************************************************************)
(* WebMapTileLoader: loadTextureImage and loadTileContent.                 *)
(***************************************************************************)
loadTextureImageNoCatch(decoded, isCanceled, created) ==
  IF ~decoded THEN [thrown |-> TRUE, texture |-> FALSE, called |-> FALSE]
  ELSE IF isCanceled THEN [thrown |-> FALSE, texture |-> FALSE, called |-> FALSE]
  ELSE [thrown |-> (created = "throws"), texture |-> (created = "texture"), called |-> TRUE]

loadTextureImageUnchecked(decoded, isCanceled, created) ==
  IF ~decoded THEN [thrown |-> FALSE, texture |-> FALSE, called |-> FALSE]
  ELSE [thrown |-> FALSE, texture |-> (created = "texture"), called |-> TRUE]

\* loadTextureImage once imageElementFromImageSource has settled: decoded is
\* whether it resolved; created is what system.createTextureFromImage does
\* when called ("texture", "undefined" or "throws").
\*   .then((image) => isCanceled() ? undefined : system.createTextureFromImage(...))
\*   .catch((_) => undefined)
loadTextureImage(decoded, isCanceled, created) ==
  IF ~decoded THEN [thrown |-> FALSE, texture |-> FALSE, called |-> FALSE]
  ELSE IF isCanceled THEN [thrown |-> FALSE, texture |-> FALSE, called |-> FALSE]
  ELSE [thrown |-> FALSE, texture |-> (created = "texture"), called |-> TRUE]

\* loadTileContent from the awaited loadTextureImage on: graphicMade is whether
\* system.createTile returns a graphic.
loadTileContent(textureOutcome, graphicMade) ==
  IF textureOutcome.thrown
  THEN [rejected |-> TRUE, graphic |-> FALSE, tileGraphic |-> FALSE, batch |-> FALSE]
  ELSE IF ~textureOutcome.texture
  THEN [rejected |-> FALSE, graphic |-> FALSE, tileGraphic |-> FALSE, batch |-> FALSE]
  ELSE [rejected |-> FALSE, graphic |-> graphicMade, tileGraphic |-> graphicMade,
        batch |-> graphicMade]

(***************************************************************************)
(* SpecLoad: the tiles of one tile tree are requested from its provider,   *)
(* their content is loaded, and loads are canceled, in any interleaving.   *)
(***************************************************************************)
NoSubdomains == [defined |-> FALSE, count |-> 0]
NoMissingTileData == [defined |-> FALSE, data |-> <<>>]

Zeros(n) == [i \in 1..n |-> 0]
Flip(s, k) == [s EXCEPT ![k] = 1]
\* Response bodies: none, and tiles of SampleStride + 1 and + 2 bytes that
\* differ at a compared offset (1, SampleStride + 1) or at one that is not (2).
TileBodies ==
  { <<>>, Zeros(SampleStride + 1), Flip(Zeros(SampleStride + 1), 2),
    Flip(Zeros(SampleStride + 1), SampleStride + 1), Zeros(SampleStride + 2) }
ContentTypes == {"image/jpeg", "image/png", "image/gif"}

\* The tiles requested: content ids of displayable quads.
LoadTiles == {contentId(QuadId(Num(1), Num(0), Num(1))), contentId(QuadId(Num(2), Num(3), Num(1)))}

NewLoad ==
  [pc |-> "idle", url |-> [thrown |-> FALSE, subdomain |-> 0, path |-> <<>>],
   requests |-> 0, response |-> FailedResponse, data |-> Undefined, asserted |-> FALSE,
   canceled |-> FALSE, canceledAtDecode |-> FALSE,
   decode |-> "none", created |-> "none",
   texture |-> FALSE, tileGraphic |-> FALSE, batch |-> FALSE, graphic |-> FALSE]

LoadIdle ==
  /\ pKind = "none" /\ pSubdomains = NoSubdomains
  /\ pMissingTileData = NoMissingTileData
  /\ loads = <<>>

LoadInit ==
  /\ assertionsEnabled \in BOOLEAN
  /\ \/ /\ pKind = "BingProvider"
        /\ pSubdomains \in {NoSubdomains, [defined |-> TRUE, count |-> 2]}
        /\ pMissingTileData \in
             {NoMissingTileData, [defined |-> TRUE, data |-> Zeros(SampleStride + 1)]}
     \/ /\ pKind = "MapBoxProvider"
        /\ pSubdomains = NoSubdomains
        /\ pMissingTileData = NoMissingTileData
  /\ loads = [t \in LoadTiles |-> NewLoad]

\* WebMapTileLoader.requestTileContent up to the await of the request in
\* loadTile: the content id is parsed and the url constructed (outside the try).
RequestTileContent(t) ==
  /\ loads[t].pc = "idle"
  /\ LET q == createFromContentId(assertionsEnabled, t)
         url == constructUrl(assertionsEnabled, pKind, pSubdomains,
                             q.quad.row.v, q.quad.column.v, q.quad.level.v)
     IN IF q.thrown \/ url.thrown
        THEN loads' = [loads EXCEPT ![t].pc = "requestRejected", ![t].url = url]
        ELSE loads' = [loads EXCEPT ![t].pc = "fetching", ![t].url = url,
                                    ![t].requests = @ + 1]
  /\ UNCHANGED <<assertionsEnabled, pKind, pSubdomains, pMissingTileData, notLoad>>

\* The request settles and loadTile runs to its end.
RequestSettles(t, tileResponse) ==
  /\ loads[t].pc = "fetching"
  /\ LET r == loadTile(assertionsEnabled, pKind, pMissingTileData, tileResponse)
     IN loads' = [loads EXCEPT
          ![t].pc = IF r.rejected THEN "requestRejected"
                    ELSE IF r.value.defined THEN "dataReady" ELSE "noData",
          ![t].response = tileResponse,
          ![t].data = r.value,
          ![t].asserted = r.asserted]
  /\ UNCHANGED <<assertionsEnabled, pKind, pSubdomains, pMissingTileData, notLoad>>

\* await request(...) rejects: a network or transport failure.
RequestFails(t) == RequestSettles(t, FailedResponse)

\* await request(...) resolves with a response.
RequestResponds(t) ==
  \E body \in TileBodies, contentType \in ContentTypes :
    RequestSettles(t, OkResponse(body, contentType))

\* WebMapTileLoader.loadTileContent up to await reprojectCorners().
LoadTileContent(t) ==
  /\ loads[t].pc = "dataReady"
  /\ loads' = [loads EXCEPT ![t].pc = "reprojecting"]
  /\ UNCHANGED <<assertionsEnabled, pKind, pSubdomains, pMissingTileData, notLoad>>

\* reprojectCorners() resolves; loadTextureImage starts the image decode.
ReprojectDone(t) ==
  /\ loads[t].pc = "reprojecting"
  /\ loads' = [loads EXCEPT ![t].pc = "decoding"]
  /\ UNCHANGED <<assertionsEnabled, pKind, pSubdomains, pMissingTileData, notLoad>>

\* The image decode settles; loadTextureImage and loadTileContent run to their
\* end. `decode` and `created` record what the decode and the call of
\* system.createTextureFromImage (if made) did.
DecodeSettles(t, decoded, created, graphicMade) ==
  /\ loads[t].pc = "decoding"
  /\ LET tex == loadTextureImage(decoded, loads[t].canceled, created)
         c == loadTileContent(tex, graphicMade)
     IN loads' = [loads EXCEPT
          ![t].pc = IF c.rejected THEN "contentRejected" ELSE "contentDone",
          ![t].canceledAtDecode = loads[t].canceled,
          ![t].decode = IF decoded THEN "decoded" ELSE "failed",
          ![t].created = IF tex.called THEN created ELSE "none",
          ![t].texture = tex.texture,
          ![t].tileGraphic = c.tileGraphic,
          ![t].batch = c.batch,
          ![t].graphic = c.graphic]
  /\ UNCHANGED <<assertionsEnabled, pKind, pSubdomains, pMissingTileData, notLoad>>

DecodeSucceeds(t) ==
  \E created \in {"texture", "undefined", "throws"}, graphicMade \in BOOLEAN :
    DecodeSettles(t, TRUE, created, graphicMade)

DecodeFails(t) == DecodeSettles(t, FALSE, "undefined", FALSE)

\* The caller's cancellation predicate becomes true.
Cancel(t) ==
  /\ loads[t].pc \in {"fetching", "dataReady", "reprojecting", "decoding"}
  /\ ~loads[t].canceled
  /\ loads' = [loads EXCEPT ![t].canceled = TRUE]
  /\ UNCHANGED <<assertionsEnabled, pKind, pSubdomains, pMissingTileData, notLoad>>

LoadNext ==
  \E t \in LoadTiles :
    \/ RequestTileContent(t)
    \/ RequestFails(t)
    \/ RequestResponds(t)
    \/ LoadTileContent(t)
    \/ ReprojectDone(t)
    \/ DecodeSucceeds(t)
    \/ DecodeFails(t)
    \/ Cancel(t)

(***************************************************************************)
(* SpecCov: Coverage.overlaps and getMatchingAttributions are applied to   *)
(* inputs drawn from bounded sets.                                         *)
(***************************************************************************)
NoCoverage == Coverage(0, 0, 0, 0, 0, 0)
NoAttributions == [defined |-> FALSE, list |-> <<>>]

\* The quads of the levels 0..MaxCovLevel.
CovQuads ==
  UNION {{QuadId(Num(l), Num(c), Num(r)) : c \in 0..(Pow2(l) - 1), r \in 0..(Pow2(l) - 1)} :
           l \in 0..MaxCovLevel}

\* Coverage boxes as the metadata gives them: lower left <= upper right.
CovCoords == {0 - WorldHalf, 0 - 1, 0, 4}
CovBoxes ==
  {Coverage(b[1], b[2], b[3], b[4], z[1], z[2]) :
     b \in {c \in CovCoords \X CovCoords \X CovCoords \X CovCoords :
              c[1] <= c[3] /\ c[2] <= c[4]},
     z \in (0..MaxCovLevel) \X (0..MaxCovLevel)}

\* The attributions and tiles getMatchingAttributions is tried on.
AttributionPool ==
  { <<>>,
    <<Coverage(0 - WorldHalf, 0 - WorldHalf, WorldHalf, 0, 0, MaxCovLevel)>>,
    <<Coverage(1, 1, WorldHalf, WorldHalf, 1, MaxCovLevel),
      Coverage(0 - WorldHalf, 0 - WorldHalf, WorldHalf, WorldHalf, 0, 0)>>,
    <<Coverage(0 - WorldHalf, 0 - WorldHalf, 0 - 5, 0 - 5, 0, 1)>> }
TilePool ==
  {contentId(q) : q \in {QuadId(Num(0), Num(0), Num(0)), QuadId(Num(1), Num(0), Num(0)),
                         QuadId(Num(1), Num(1), Num(1)), QuadId(Num(1), Num(1), Num(0))}}

QuadIdle ==
  /\ qOrigin = "none" /\ qPhase = "start"
  /\ qSrc = NoQuad /\ qStr = <<>> /\ qOut = NoQuad

CovIdle ==
  /\ cKind = "none" /\ cPhase = "start"
  /\ cQuad = NoQuad /\ cCoverage = NoCoverage /\ cOverlaps = FALSE
  /\ aAttributions = NoAttributions /\ aTiles = <<>> /\ aMatching = <<>>

CovInit ==
  /\ cPhase = "start" /\ cOverlaps = FALSE /\ aMatching = <<>>
  /\ \/ /\ cKind = "overlaps"
        /\ assertionsEnabled = FALSE
        /\ cQuad \in CovQuads /\ cCoverage \in CovBoxes
        /\ aAttributions = NoAttributions /\ aTiles = <<>>
     \/ /\ cKind = "attributions"
        /\ assertionsEnabled \in BOOLEAN
        /\ cQuad = NoQuad /\ cCoverage = NoCoverage
        /\ \/ aAttributions = NoAttributions
           \/ \E n \in 1..MaxAttributions : \E l \in [1..n -> AttributionPool] :
                aAttributions = [defined |-> TRUE, list |-> l]
        /\ \E n \in 0..MaxTiles : aTiles \in [1..n -> TilePool]

\* coverage.overlaps(quadId, tilingScheme)
CovOverlaps ==
  /\ cKind = "overlaps" /\ cPhase = "start"
  /\ cOverlaps' = overlaps(cCoverage, cQuad)
  /\ cPhase' = "done"
  /\ UNCHANGED <<assertionsEnabled, cKind, cQuad, cCoverage, aAttributions, aTiles, aMatching, notCov>>

\* provider.getMatchingAttributions(tiles)
CovGetMatchingAttributions ==
  /\ cKind = "attributions" /\ cPhase = "start"
  /\ LET r == getMatchingAttributions(assertionsEnabled, aAttributions, aTiles)
     IN /\ cPhase' = IF r.thrown THEN "thrown" ELSE "done"
        /\ aMatching' = r.matching
  /\ UNCHANGED <<assertionsEnabled, cKind, cQuad, cCoverage, cOverlaps, aAttributions, aTiles, notCov>>

CovNext == CovOverlaps \/ CovGetMatchingAttributions

\* Two inclusive axis-aligned boxes intersect when they have a point in
\* common, that is a longitude and a latitude that lie in both.
WorldAxis == (0 - WorldHalf)..WorldHalf
Between(a, v, b) == (a <= v /\ v <= b) \/ (b <= v /\ v <= a)
QuadLongitudes(q) ==
  {x \in WorldAxis :
     Between(tileXYToCartographic(q.column.v, q.row.v, q.level.v).x, x,
             tileXYToCartographic(q.column.v + 1, q.row.v + 1, q.level.v).x)}
QuadLatitudes(q) ==
  {y \in WorldAxis :
     Between(tileXYToCartographic(q.column.v, q.row.v, q.level.v).y, y,
             tileXYToCartographic(q.column.v + 1, q.row.v + 1, q.level.v).y)}
BoxLongitudes(cov) ==
  {x \in WorldAxis : cov.lowerLeftLongitude <= x /\ x <= cov.upperRightLongitude}
BoxLatitudes(cov) ==
  {y \in WorldAxis : cov.lowerLeftLatitude <= y /\ y <= cov.upperRightLatitude}
BoxesIntersect(cov, q) ==
  /\ QuadLongitudes(q) \cap BoxLongitudes(cov) # {}
  /\ QuadLatitudes(q) \cap BoxLatitudes(cov) # {}
QuadInsideBox(cov, q) ==
  /\ QuadLongitudes(q) \subseteq BoxLongitudes(cov)
  /\ QuadLatitudes(q) \subseteq BoxLatitudes(cov)

\* C5: Coverage.overlaps is true iff minZoom <= level <= maxZoom and the
\* quad's latitude/longitude range shares a point with the coverage box,
\* edges included; so it is false outside the zoom range, false for a quad
\* fully outside the box, true for a quad fully inside it at a valid zoom.
C5_OverlapsIffZoomAndBox ==
  (cKind = "overlaps" /\ cPhase = "done")
    => LET zoomOk == /\ cCoverage.minimumZoomLevel <= cQuad.level.v
                     /\ cQuad.level.v <= cCoverage.maximumZoomLevel
       IN /\ cOverlaps = (zoomOk /\ BoxesIntersect(cCoverage, cQuad))
          /\ ~zoomOk => ~cOverlaps
          /\ ~BoxesIntersect(cCoverage, cQuad) => ~cOverlaps
          /\ (zoomOk /\ QuadInsideBox(cCoverage, cQuad)) => cOverlaps

\* A quad that only touches the coverage box on an edge overlaps it.
C5_Witness ==
  /\ cKind = "overlaps" /\ cPhase = "done" /\ cOverlaps
  /\ cQuad = QuadId(Num(1), Num(1), Num(0))
  /\ cCoverage.upperRightLongitude = 0 /\ cCoverage.lowerLeftLongitude < 0

AttributionMatches(i, tiles) ==
  \E t \in 1..Len(tiles) :
    \E k \in 1..Len(aAttributions.list[i]) :
      overlaps(aAttributions.list[i][k], createFromContentId(FALSE, tiles[t]).quad)

\* C6: getMatchingAttributions returns exactly the attributions that match at
\* least one of the tiles, and none of them more than once.
C6_ExactlyMatchingOnce ==
  (cKind = "attributions" /\ cPhase # "start")
    => /\ cPhase = "done"
       /\ \A i \in 1..Len(aAttributions.list) :
            AttributionMatches(i, aTiles)
              <=> (\E j \in 1..Len(aMatching) : aMatching[j] = i)
       /\ \A j \in 1..Len(aMatching) : aMatching[j] \in 1..Len(aAttributions.list)
       /\ \A j, k \in 1..Len(aMatching) : j # k => aMatching[j] # aMatching[k]

\* Two tiles both match the same attribution, which is returned once.
C6_Witness ==
  /\ cKind = "attributions" /\ cPhase = "done"
  /\ Len(aTiles) = 2 /\ aTiles[1] # aTiles[2]
  /\ Len(aAttributions.list) = 2
  /\ AttributionMatches(1, <<aTiles[1]>>) /\ AttributionMatches(1, <<aTiles[2]>>)
  /\ ~AttributionMatches(2, aTiles)
  /\ aMatching = <<1>>

(***************************************************************************)
(* SpecQuad: content ids are serialised and parsed.                        *)
(***************************************************************************)
IdChars == {"1", "0", "_", "-", "b"}
RawStrings == UNION {[1..n -> IdChars] : n \in 0..MaxStrLen}

QuadInit ==
  /\ assertionsEnabled \in BOOLEAN
  /\ qPhase = "start"
  /\ qOut = NoQuad
  /\ \/ /\ qOrigin = "id"
        /\ qStr = <<>>
        /\ \E l \in 0..MaxLevel, c \in (0 - 2)..MaxCoord, r \in (0 - 2)..MaxCoord :
             qSrc = QuadId(Num(l), Num(c), Num(r))
     \/ /\ qOrigin = "raw"
        /\ qSrc = NoQuad
        /\ qStr \in RawStrings

\* q.contentId
QuadSerialize ==
  /\ qOrigin = "id" /\ qPhase = "start"
  /\ qStr' = contentId(qSrc)
  /\ qPhase' = "serialized"
  /\ UNCHANGED <<assertionsEnabled, qOrigin, qSrc, qOut, notQuad>>

\* QuadId.createFromContentId(qStr)
QuadParse ==
  /\ \/ qOrigin = "id" /\ qPhase = "serialized"
     \/ qOrigin = "raw" /\ qPhase = "start"
  /\ LET r == createFromContentId(assertionsEnabled, qStr)
     IN /\ qPhase' = IF r.thrown THEN "thrown" ELSE "parsed"
        /\ qOut' = r.quad
  /\ UNCHANGED <<assertionsEnabled, qOrigin, qSrc, qStr, notQuad>>

QuadNext == QuadSerialize \/ QuadParse

\* C3: for every QuadId q with integer level >= 0 and integer column and row,
\* createFromContentId(q.contentId) has the level, column and row of q.
C3_RoundTrip ==
  (qOrigin = "id" /\ qPhase # "start" /\ qPhase # "serialized")
    => (qPhase = "parsed" /\ qOut = qSrc)

C3_Witness ==
  /\ qOrigin = "id" /\ qPhase = "parsed"
  /\ qSrc.column.v >= 10 /\ qSrc.row.v < 0 /\ qSrc.level.v > 0
  /\ qOut = qSrc

PartCount(s) == Len(Split(s, "_"))

IsNumericPart(part) ==
  LET body == IF part # <<>> /\ part[1] = "-" THEN Tail(part) ELSE part
  IN body # <<>> /\ \A k \in 1..Len(body) : IsDigit(body[k])

HasNonNumericPart(s) == \E k \in 1..PartCount(s) : ~IsNumericPart(Split(s, "_")[k])

\* C24: a string that splits on "_" into exactly three parts, one of them not
\* numeric, yields the invalid marker: a QuadId with level = -1 whose isValid
\* is false.
C24_NonNumericPartGivesInvalidMarker ==
  (qOrigin = "raw" /\ qPhase # "start" /\ PartCount(qStr) = 3 /\ HasNonNumericPart(qStr))
    => (qPhase = "parsed" /\ qOut.level = Num(-1) /\ ~isValid(qOut))

(***************************************************************************)
(* BingImageryProvider.initialize and its metadata.                        *)
(*                                                                         *)
(* A url is a string, a sequence of characters.                            *)
(***************************************************************************)
NoString == [defined |-> FALSE, s |-> <<>>]
Str(s) == [defined |-> TRUE, s |-> s]

\* String.prototype.startsWith and slice(begin)
StartsWith(s, prefix) == Len(s) >= Len(prefix) /\ SubSeq(s, 1, Len(prefix)) = prefix
Slice(s, begin) == SubSeq(s, begin + 1, Len(s))

replaceHttpWithHttpsLoosePrefix(originalUrl) ==
  IF StartsWith(originalUrl, <<"h", "t", "t", "p">>)
  THEN <<"h", "t", "t", "p", "s", ":">> \o Slice(originalUrl, 5)
  ELSE originalUrl

\* originalUrl.startsWith("http:") ? "https:".concat(originalUrl.slice(5)) : originalUrl
replaceHttpWithHttps(originalUrl) ==
  IF StartsWith(originalUrl, <<"h", "t", "t", "p", ":">>)
  THEN <<"h", "t", "t", "p", "s", ":">> \o Slice(originalUrl, 5)
  ELSE originalUrl

\* String.prototype.replace(pattern, replacement) with a string pattern: the
\* first occurrence only.
RECURSIVE ReplaceFirst(_, _, _)
ReplaceFirst(s, pattern, replacement) ==
  IF Len(s) < Len(pattern) THEN s
  ELSE IF StartsWith(s, pattern) THEN replacement \o Slice(s, Len(pattern))
  ELSE <<Head(s)>> \o ReplaceFirst(Tail(s), pattern, replacement)

NoProvider ==
  [kind |-> "none", mapType |-> 0, initializeCalls |-> 0, metadata |-> "none",
   logoUrl |-> NoString, zoomMin |-> 0, zoomMax |-> 0, tileHeight |-> 0, tileWidth |-> 0,
   urlTemplate |-> NoString, urlSubdomains |-> NoSubdomains,
   attributions |-> NoAttributions, missingTileData |-> NoMissingTileData,
   probe |-> "none"]

\* new BingImageryProvider(mapType)
NewBingImageryProvider(mapType) ==
  [NoProvider EXCEPT !.kind = "BingProvider", !.mapType = mapType]

\* new MapBoxImageryProvider(mapType)
NewMapBoxImageryProvider(mapType) ==
  [NoProvider EXCEPT !.kind = "MapBoxProvider", !.mapType = mapType,
                     !.zoomMin = 1, !.zoomMax = 20, !.tileHeight = 256, !.tileWidth = 256]

\* readAttributions: one attribution (its coverages) is pushed per entry; the
\* array is created at the first push.
RECURSIVE readAttributions(_, _)
readAttributions(attributions, attributionProps) ==
  IF attributionProps = <<>> THEN attributions
  ELSE readAttributions([defined |-> TRUE,
                         list |-> Append(attributions.list, Head(attributionProps))],
                        Tail(attributionProps))

\* The probe of initialize, this.loadTile(0, 0, this._zoomMax - 1), up to its
\* request: a throw of constructUrl rejects the promise nobody awaits.
startProbe(enabled, provider) ==
  IF constructUrl(enabled, provider.kind, provider.urlSubdomains, 0, 0,
                  provider.zoomMax - 1).thrown
  THEN [provider EXCEPT !.probe = "rejected"]
  ELSE [provider EXCEPT !.probe = "fetching"]

initializeTryProbeAwaited(enabled, provider, body) ==
  IF ~body.brandLogoUri.defined THEN [thrown |-> TRUE, provider |-> provider]
  ELSE LET p1 == [provider EXCEPT
                    !.logoUrl = Str(replaceHttpWithHttps(body.brandLogoUri.s))]
       IN IF ~body.hasResource THEN [thrown |-> TRUE, provider |-> p1]
          ELSE LET p2 == [p1 EXCEPT !.zoomMin = body.zoomMin, !.zoomMax = body.zoomMax,
                                    !.tileHeight = body.imageHeight,
                                    !.tileWidth = body.imageWidth]
               IN IF ~body.imageUrl.defined THEN [thrown |-> TRUE, provider |-> p2]
                  ELSE LET p3 == [p2 EXCEPT
                                    !.urlTemplate =
                                       Str(replaceHttpWithHttps(
                                             ReplaceFirst(body.imageUrl.s,
                                                          <<"{", "c", "u", "l", "t", "u", "r", "e", "}">>,
                                                          <<"e", "n", "-", "U", "S">>))),
                                    !.urlSubdomains = body.imageUrlSubdomains]
                       IN IF ~body.imageryProviders.defined
                          THEN [thrown |-> TRUE, provider |-> p3]
                          ELSE LET p4 == startProbe(enabled,
                                           [p3 EXCEPT !.attributions =
                                              readAttributions(p3.attributions,
                                                               body.imageryProviders.list)])
                               IN [thrown |-> p4.probe = "rejected", provider |-> p4]

\* The try block of initialize once the metadata request has resolved with
\* `body`: the fields are assigned in the order of the code, and a field read
\* off an undefined value throws with the earlier assignments made.
initializeTry(enabled, provider, body) ==
  IF ~body.brandLogoUri.defined THEN [thrown |-> TRUE, provider |-> provider]
  ELSE LET p1 == [provider EXCEPT
                    !.logoUrl = Str(replaceHttpWithHttps(body.brandLogoUri.s))]
       IN IF ~body.hasResource THEN [thrown |-> TRUE, provider |-> p1]
          ELSE LET p2 == [p1 EXCEPT !.zoomMin = body.zoomMin, !.zoomMax = body.zoomMax,
                                    !.tileHeight = body.imageHeight,
                                    !.tileWidth = body.imageWidth]
               IN IF ~body.imageUrl.defined THEN [thrown |-> TRUE, provider |-> p2]
                  ELSE LET p3 == [p2 EXCEPT
                                    !.urlTemplate =
                                       Str(replaceHttpWithHttps(
                                             ReplaceFirst(body.imageUrl.s,
                                                          <<"{", "c", "u", "l", "t", "u", "r", "e", "}">>,
                                                          <<"e", "n", "-", "U", "S">>))),
                                    !.urlSubdomains = body.imageUrlSubdomains]
                       IN IF ~body.imageryProviders.defined
                          THEN [thrown |-> TRUE, provider |-> p3]
                          ELSE [thrown |-> FALSE,
                                provider |->
                                  startProbe(enabled,
                                    [p3 EXCEPT !.attributions =
                                       readAttributions(p3.attributions,
                                                        body.imageryProviders.list)])]

initializeSwallow(enabled, provider, requestOk, body) ==
  IF ~requestOk
  THEN [rejected |-> FALSE, error |-> "none", provider |-> [provider EXCEPT !.metadata = "failed"]]
  ELSE LET r == initializeTry(enabled, provider, body)
       IN [rejected |-> FALSE, error |-> "none",
           provider |-> [r.provider EXCEPT !.metadata = IF r.thrown THEN "malformed" ELSE "ok"]]

\* BingImageryProvider.initialize once its request has settled:
\* catch (error) { throw new BentleyError(IModelStatus.BadModel, ...) }
initialize(enabled, provider, requestOk, body) ==
  IF ~requestOk
  THEN [rejected |-> TRUE, error |-> "BadModel",
        provider |-> [provider EXCEPT !.metadata = "failed"]]
  ELSE LET r == initializeTry(enabled, provider, body)
       IN IF r.thrown
          THEN [rejected |-> TRUE, error |-> "BadModel",
                provider |-> [r.provider EXCEPT !.metadata = "malformed"]]
          ELSE [rejected |-> FALSE, error |-> "none",
                provider |-> [r.provider EXCEPT !.metadata = "ok"]]

getGcsConverterAvailableNoCatch(probe) ==
  IF probe.thrown THEN [rejected |-> TRUE, value |-> FALSE]
  ELSE [rejected |-> FALSE, value |-> (probe.count = 1 /\ ~probe.noGcs)]

\* getGcsConverterAvailable once the converter has answered: `probe` is
\* [thrown, count, noGcs], whether getIModelCoordinatesFromGeoCoordinates
\* threw, the number of coordinates it returned and whether the first one's
\* status is NoGCSDefined.  try { ... } catch (_) { haveConverter = false; }
getGcsConverterAvailable(probe) ==
  IF probe.thrown THEN [rejected |-> FALSE, value |-> FALSE]
  ELSE [rejected |-> FALSE, value |-> (probe.count = 1 /\ ~probe.noGcs)]

(***************************************************************************)
(* The tile tree suppliers and the cache of tile tree owners.              *)
(***************************************************************************)
\* The provider names, in the order of their code units.
ProviderNames == <<"BingProvider", "MapBoxProvider", "OtherProvider">>
NameRank(name) == CHOOSE i \in 1..Len(ProviderNames) : ProviderNames[i] = name

compareStrings(a, b) ==
  IF a = b THEN 0 ELSE IF NameRank(a) < NameRank(b) THEN 0 - 1 ELSE 1
compareNumbers(a, b) == a - b
compareBooleans(a, b) == IF a # b THEN (IF ~a /\ b THEN 0 - 1 ELSE 1) ELSE 0

BackgroundMapTreeId(providerName, mapType, groundBias, forDrape) ==
  [providerName |-> providerName, mapType |-> mapType,
   groundBias |-> groundBias, forDrape |-> forDrape]

compareTileTreeIdsMixedFields(lhs, rhs) ==
  LET c1 == compareStrings(lhs.providerName, rhs.providerName)
      c2 == compareNumbers(lhs.mapType, rhs.mapType)
      c3 == compareNumbers(lhs.groundBias, rhs.mapType)
      c4 == compareBooleans(lhs.forDrape, rhs.forDrape)
  IN IF c1 # 0 THEN c1 ELSE IF c2 # 0 THEN c2 ELSE IF c3 # 0 THEN c3 ELSE c4

compareTileTreeIdsNoDrape(lhs, rhs) ==
  LET c1 == compareStrings(lhs.providerName, rhs.providerName)
      c2 == compareNumbers(lhs.mapType, rhs.mapType)
      c3 == compareNumbers(lhs.groundBias, rhs.groundBias)
  IN IF c1 # 0 THEN c1 ELSE IF c2 # 0 THEN c2 ELSE c3

\* BackgroundMapTreeSupplier.compareTileTreeIds
compareTileTreeIds(lhs, rhs) ==
  LET c1 == compareStrings(lhs.providerName, rhs.providerName)
      c2 == compareNumbers(lhs.mapType, rhs.mapType)
      c3 == compareNumbers(lhs.groundBias, rhs.groundBias)
      c4 == compareBooleans(lhs.forDrape, rhs.forDrape)
  IN IF c1 # 0 THEN c1 ELSE IF c2 # 0 THEN c2 ELSE IF c3 # 0 THEN c3 ELSE c4

createTileTreeInitializeFirst(id, ecef) ==
  IF id.providerName \notin {"BingProvider", "MapBoxProvider"}
  THEN [made |-> FALSE, provider |-> NoProvider, next |-> "undefined"]
  ELSE LET imageryProvider ==
             IF id.providerName = "BingProvider"
             THEN NewBingImageryProvider(id.mapType)
             ELSE NewMapBoxImageryProvider(id.mapType)
       IN IF id.providerName = "MapBoxProvider" /\ ~ecef
          THEN [made |-> TRUE,
                provider |-> [imageryProvider EXCEPT !.initializeCalls = @ + 1],
                next |-> "undefined"]
          ELSE [made |-> TRUE,
                provider |-> [imageryProvider EXCEPT !.initializeCalls = @ + 1],
                next |-> IF id.providerName = "BingProvider"
                         THEN "awaitMetadata" ELSE "awaitGcs"]

createTileTreeDefaultMapBox(id, ecef) ==
  LET imageryProvider ==
        IF id.providerName = "BingProvider"
        THEN NewBingImageryProvider(id.mapType)
        ELSE NewMapBoxImageryProvider(id.mapType)
  IN IF ~ecef
     THEN [made |-> TRUE, provider |-> imageryProvider, next |-> "undefined"]
     ELSE [made |-> TRUE,
           provider |-> [imageryProvider EXCEPT !.initializeCalls = @ + 1],
           next |-> IF id.providerName = "BingProvider"
                    THEN "awaitMetadata" ELSE "awaitGcs"]

\* BackgroundMapTreeSupplier.createTileTree and createTileTreeFromImageryProvider
\* up to their first await that waits for the outside: `made` is whether a
\* provider was constructed, `next` where the creation stands ("undefined":
\* it resolves to undefined).
createTileTree(id, ecef) ==
  IF id.providerName \notin {"BingProvider", "MapBoxProvider"}
  THEN [made |-> FALSE, provider |-> NoProvider, next |-> "undefined"]
  ELSE LET imageryProvider ==
             IF id.providerName = "BingProvider"
             THEN NewBingImageryProvider(id.mapType)
             ELSE NewMapBoxImageryProvider(id.mapType)
       IN IF ~ecef
          THEN [made |-> TRUE, provider |-> imageryProvider, next |-> "undefined"]
          ELSE [made |-> TRUE,
                provider |-> [imageryProvider EXCEPT !.initializeCalls = @ + 1],
                next |-> IF id.providerName = "BingProvider"
                         THEN "awaitMetadata" ELSE "awaitGcs"]

\* A tile tree owner, with the creation it started: `promise` is the state of
\* the promise of createTileTree, `pc` the await the creation stands at,
\* `received` what the metadata request of its provider settled with, `gcs`
\* what the converter answered.
NewOwner(id) ==
  [id |-> id, status |-> "NotLoaded", tree |-> 0, error |-> "none",
   createCalls |-> 0, providersMade |-> 0, treesBuilt |-> 0,
   pc |-> "idle", promise |-> "none",
   provider |-> NoProvider, received |-> <<>>, gcs |-> <<>>,
   modelId |-> 0, haveConverter |-> FALSE]

\* iModel.tiles.getTileTreeOwner(id, supplier): the owner whose id compares
\* equal under the supplier's order, or a new one put into the cache.
FindOwner(os, id) == {i \in 1..Len(os) : compareTileTreeIds(id, os[i].id) = 0}
getTileTreeOwner(os, id) ==
  IF FindOwner(os, id) # {}
  THEN [owners |-> os, index |-> CHOOSE i \in FindOwner(os, id) :
                                   \A j \in FindOwner(os, id) : i <= j]
  ELSE [owners |-> Append(os, NewOwner(id)), index |-> Len(os) + 1]

\* TileTree.Owner.load(): the first call starts supplier.createTileTree, the
\* later ones find the owner loading, loaded or not found.
OwnerLoad(o, ecef, transientId) ==
  IF o.status # "NotLoaded" THEN o
  ELSE LET c == createTileTree(o.id, ecef)
       IN [o EXCEPT
             !.status = IF c.next = "undefined" THEN "NotFound" ELSE "Loading",
             !.createCalls = @ + 1,
             !.providersMade = @ + (IF c.made THEN 1 ELSE 0),
             !.provider = c.provider,
             !.pc = IF c.next = "undefined" THEN "done" ELSE c.next,
             !.promise = IF c.next = "undefined" THEN "resolvedUndefined" ELSE "pending",
             !.modelId = IF c.next = "awaitGcs" THEN transientId ELSE 0]

(***************************************************************************)
(* SpecTree: tile tree references resolve their owners and load them while *)
(* the provider's requests settle, in any interleaving.                    *)
(***************************************************************************)
Refs == 1..MaxRefs

KeyPool ==
  { BackgroundMapTreeId("BingProvider", 1, 0, FALSE),
    BackgroundMapTreeId("MapBoxProvider", 1, 0, FALSE),
    BackgroundMapTreeId("MapBoxProvider", 1, 0, TRUE),
    BackgroundMapTreeId("OtherProvider", 1, 0, FALSE) }

OneCoverage == Coverage(0 - WorldHalf, 0 - WorldHalf, WorldHalf, 0, 1, MaxCovLevel)
\* "http://l" and "http://{culture}", and their https forms.
HttpLogo == <<"h", "t", "t", "p", ":", "/", "/", "l">>
HttpsLogo == <<"h", "t", "t", "p", "s", ":", "/", "/", "l">>
TemplateTail == <<"/", "/", "{", "c", "u", "l", "t", "u", "r", "e", "}">>
HttpTemplate == <<"h", "t", "t", "p", ":">> \o TemplateTail
HttpsTemplate == <<"h", "t", "t", "p", "s", ":">> \o TemplateTail

GoodBody ==
  [brandLogoUri |-> Str(HttpLogo), hasResource |-> TRUE,
   zoomMin |-> 1, zoomMax |-> 3, imageHeight |-> 256, imageWidth |-> 256,
   imageUrl |-> Str(HttpTemplate),
   imageUrlSubdomains |-> [defined |-> TRUE, count |-> 2],
   imageryProviders |-> [defined |-> TRUE, list |-> << <<OneCoverage>> >>]]
MetadataBodies ==
  { GoodBody,
    [GoodBody EXCEPT !.brandLogoUri = Str(HttpsLogo),
                     !.imageUrl = Str(HttpsTemplate),
                     !.imageUrlSubdomains = NoSubdomains],
    [GoodBody EXCEPT !.brandLogoUri = NoString],
    [GoodBody EXCEPT !.hasResource = FALSE],
    [GoodBody EXCEPT !.imageryProviders = [defined |-> FALSE, list |-> <<>>]],
    [GoodBody EXCEPT !.zoomMax = 1] }

\* What the metadata request can settle with: a failure, or a body.
MetadataOutcomes ==
  {[ok |-> FALSE, body |-> GoodBody]} \cup {[ok |-> TRUE, body |-> b] : b \in MetadataBodies}

GcsProbes ==
  { [thrown |-> TRUE, count |-> 0, noGcs |-> FALSE],
    [thrown |-> FALSE, count |-> 1, noGcs |-> FALSE],
    [thrown |-> FALSE, count |-> 1, noGcs |-> TRUE],
    [thrown |-> FALSE, count |-> 0, noGcs |-> FALSE],
    [thrown |-> FALSE, count |-> 2, noGcs |-> FALSE] }

ProbeResponses ==
  { FailedResponse, OkResponse(Zeros(SampleStride + 1), "image/jpeg") }

TreeIdle ==
  /\ ecefDefined = FALSE /\ refKey = <<>> /\ refOwner = <<>>
  /\ owners = <<>> /\ nextTransientId = 0

\* The references are interchangeable (each may ask at any time), so they are
\* numbered in the order of their keys.
TreeInit ==
  /\ assertionsEnabled \in BOOLEAN
  /\ ecefDefined \in BOOLEAN
  /\ refKey \in [Refs -> KeyPool]
  /\ \A r, q \in Refs : r < q => compareTileTreeIds(refKey[r], refKey[q]) <= 0
  /\ refOwner = [r \in Refs |-> 0]
  /\ owners = <<>>
  /\ nextTransientId = 1

\* BackgroundMapTileTreeReference.treeOwner followed by load() (addToScene).
TreeOwnerLoad(r) ==
  /\ LET got == getTileTreeOwner(owners, refKey[r])
         loaded == OwnerLoad(got.owners[got.index], ecefDefined, nextTransientId)
     IN /\ Len(got.owners) <= MaxRefs + 1
        /\ owners' = [got.owners EXCEPT ![got.index] = loaded]
        /\ refOwner' = [refOwner EXCEPT ![r] = got.index]
        /\ nextTransientId' = IF loaded.modelId # got.owners[got.index].modelId
                              THEN nextTransientId + 1 ELSE nextTransientId
  /\ UNCHANGED <<assertionsEnabled, ecefDefined, refKey, notTree>>

\* The metadata request of initialize settles; on success the creation goes
\* on to take its model id and to ask for the GCS converter.
MetadataSettles(i) ==
  /\ i \in 1..Len(owners) /\ owners[i].pc = "awaitMetadata"
  /\ \E outcome \in MetadataOutcomes :
       LET r == initialize(assertionsEnabled, owners[i].provider, outcome.ok, outcome.body)
       IN IF r.rejected
          THEN /\ owners' = [owners EXCEPT ![i].provider = r.provider,
                                           ![i].received = <<outcome>>,
                                           ![i].pc = "done",
                                           ![i].promise = "rejected",
                                           ![i].error = r.error,
                                           ![i].status = "NotFound"]
               /\ UNCHANGED nextTransientId
          ELSE /\ owners' = [owners EXCEPT ![i].provider = r.provider,
                                           ![i].received = <<outcome>>,
                                           ![i].pc = "awaitGcs",
                                           ![i].modelId = nextTransientId]
               /\ nextTransientId' = nextTransientId + 1
  /\ UNCHANGED <<assertionsEnabled, ecefDefined, refKey, refOwner, notTree>>

\* The converter answers; the loader and the tile tree are constructed and
\* the owner gets its tree.
GcsSettles(i) ==
  /\ i \in 1..Len(owners) /\ owners[i].pc = "awaitGcs"
  /\ \E probe \in GcsProbes :
       LET haveConverter == getGcsConverterAvailable(probe)
       IN IF haveConverter.rejected
          THEN owners' = [owners EXCEPT ![i].gcs = <<probe>>,
                                        ![i].pc = "done",
                                        ![i].promise = "rejected",
                                        ![i].error = "converter",
                                        ![i].status = "NotFound"]
          ELSE owners' = [owners EXCEPT ![i].gcs = <<probe>>,
                                        ![i].haveConverter = haveConverter.value,
                                        ![i].tree = owners[i].modelId,
                                        ![i].treesBuilt = @ + 1,
                                        ![i].pc = "done",
                                        ![i].promise = "resolvedTree",
                                        ![i].status = "Loaded"]
  /\ UNCHANGED <<assertionsEnabled, ecefDefined, refKey, refOwner, nextTransientId, notTree>>

\* The request of the missing-tile probe settles.
ProbeSettles(i) ==
  /\ i \in 1..Len(owners) /\ owners[i].provider.probe = "fetching"
  /\ \E tileResponse \in ProbeResponses :
       LET tileData == loadTile(assertionsEnabled, owners[i].provider.kind,
                                owners[i].provider.missingTileData, tileResponse).value
       IN owners' = [owners EXCEPT
            ![i].provider.probe = "done",
            ![i].provider.missingTileData =
               IF tileData.defined THEN [defined |-> TRUE, data |-> tileData.data] ELSE @]
  /\ UNCHANGED <<assertionsEnabled, ecefDefined, refKey, refOwner, nextTransientId, notTree>>

TreeNext ==
  \/ \E r \in Refs : TreeOwnerLoad(r)
  \/ \E i \in 1..(MaxRefs + 1) :
       \/ MetadataSettles(i)
       \/ GcsSettles(i)
       \/ ProbeSettles(i)

(***************************************************************************)
(* Claims on SpecLoad.                                                     *)
(***************************************************************************)
ContentSettled(t) == loads[t].pc \in {"contentDone", "contentRejected"}

\* C2: if the cancellation predicate has become true by the time the image
\* decode completes, loadTileContent resolves (is not rejected) to a content
\* with no graphic, and no texture, tile graphic or batch is created.
C2_CanceledLoadMakesNothing ==
  \A t \in LoadTiles :
    (ContentSettled(t) /\ loads[t].canceledAtDecode)
      => /\ loads[t].pc = "contentDone"
         /\ ~loads[t].graphic
         /\ ~loads[t].texture /\ ~loads[t].tileGraphic /\ ~loads[t].batch

\* One load was canceled before its decode completed and made nothing, while
\* the other, not canceled, produced its graphic.
C2_Witness ==
  \E t, u \in LoadTiles :
    /\ loads[t].pc = "contentDone" /\ loads[t].canceledAtDecode /\ ~loads[t].graphic
    /\ loads[u].pc = "contentDone" /\ ~loads[u].canceled /\ loads[u].graphic

RequestSettled(t) == loads[t].pc \notin {"idle", "fetching"} /\ loads[t].requests > 0

\* C7: when the HTTP request for the tile fails, loadTile resolves to
\* undefined, is not rejected, and no second request is issued.
C7_FailureGivesUndefined ==
  \A t \in LoadTiles :
    (RequestSettled(t) /\ ~loads[t].response.ok)
      => /\ loads[t].pc = "noData"
         /\ ~loads[t].data.defined
         /\ loads[t].requests = 1

C7_Witness ==
  \E t \in LoadTiles :
    /\ loads[t].pc = "noData" /\ ~loads[t].response.ok /\ loads[t].requests = 1

\* C8: when the request succeeds, loadTile resolves to undefined for an empty
\* body or for bytes that match the missing-tile fingerprint, and otherwise
\* to an ImageSource of the response bytes, JPEG for image/jpeg and PNG for
\* image/png; the empty check comes before the missing-tile check, which
\* comes before format detection (neither reaches the unknown-type assert).
C8_SuccessDispatch ==
  \A t \in LoadTiles :
    (RequestSettled(t) /\ loads[t].response.ok)
      => LET r == loads[t].response
         IN IF Len(r.body) = 0 \/ matchesMissingTile(pKind, pMissingTileData, r.body)
            THEN /\ loads[t].pc = "noData"
                 /\ ~loads[t].data.defined /\ ~loads[t].asserted
            ELSE /\ r.contentType = "image/jpeg"
                      => loads[t].data = ImageSource(r.body, "Jpeg")
                 /\ r.contentType = "image/png"
                      => loads[t].data = ImageSource(r.body, "Png")
                 /\ loads[t].asserted = (r.contentType \notin {"image/jpeg", "image/png"})

\* A tile whose bytes differ from the fingerprint only at an offset that is
\* not compared is dropped as missing, whatever its content-type; another
\* tile is delivered as a PNG ImageSource.
C8_Witness ==
  \E t, u \in LoadTiles :
    /\ loads[t].pc = "noData" /\ loads[t].response.ok
    /\ loads[t].response.body = Flip(Zeros(SampleStride + 1), 2)
    /\ loads[t].response.contentType = "image/gif"
    /\ ~loads[t].asserted
    /\ loads[u].data = ImageSource(Flip(Zeros(SampleStride + 1), SampleStride + 1), "Png")

UnknownTypeResponse(t) ==
  /\ RequestSettled(t) /\ loads[t].response.ok
  /\ Len(loads[t].response.body) > 0
  /\ ~matchesMissingTile(pKind, pMissingTileData, loads[t].response.body)
  /\ loads[t].response.contentType \notin {"image/jpeg", "image/png"}

\* C9: a successful response whose content-type is neither image/jpeg nor
\* image/png is surfaced to the caller of loadTile as an error, and is not
\* answered like an absent tile (resolved to undefined).
C9_UnknownTypeSurfaced ==
  \A t \in LoadTiles :
    UnknownTypeResponse(t) => loads[t].pc = "requestRejected"

DecodeOrTextureFailed(t) ==
  loads[t].decode = "failed" \/ loads[t].created \in {"throws", "undefined"}

\* C17: when the decode of a tile's image fails, or the creation of its
\* texture throws or gives nothing, loadTileContent does not reject: it
\* resolves to a content without graphic; and the step that settles one
\* tile's decode changes nothing of the other tiles' loads.
C17_DecodeFailureIsNotFatal ==
  /\ [](\A t \in LoadTiles :
          DecodeOrTextureFailed(t)
             => /\ loads[t].pc = "contentDone"
                /\ ~loads[t].texture
                /\ ~loads[t].graphic /\ ~loads[t].tileGraphic /\ ~loads[t].batch)
  /\ [][\A t \in LoadTiles :
          (loads[t].pc = "decoding" /\ loads'[t].pc # "decoding")
             => \A u \in LoadTiles \ {t} : loads'[u] = loads[u]]_vars

\* One tile's decode failed and another tile's content has its graphic.
C17_Witness ==
  \E t, u \in LoadTiles :
    /\ t # u
    /\ loads[t].decode = "failed" /\ loads[t].pc = "contentDone"
    /\ loads[u].pc = "contentDone" /\ loads[u].graphic

\* C18 as stated, for the image decode: once the cancellation predicate is
\* true the load takes no further step, so a load that is canceled when
\* reprojectCorners resolves does not go on to start the image decode.
C18_CanceledLoadStartsNoDecode ==
  [][\A t \in LoadTiles :
       (loads[t].canceled /\ loads[t].pc = "reprojecting") => loads'[t].pc # "decoding"]_vars

\* The request of tile t brought bytes of a known image type, so that only
\* matchesMissingTile decides whether loadTile gives them or undefined.
ImageArrived(t) ==
  /\ RequestSettled(t) /\ loads[t].response.ok
  /\ Len(loads[t].response.body) > 0
  /\ loads[t].response.contentType \in {"image/jpeg", "image/png"}

\* The bytes equal the fingerprint at every offset 0, 10, 20, ... below the
\* length (offset i is element i + 1).
SampledBytesEqual(fingerprint, bytes) ==
  \A i \in 0..(Len(bytes) - 1) : i % 10 = 0 => bytes[i + 1] = fingerprint[i + 1]

\* C22: a tile's bytes are taken for the missing tile (loadTile gives
\* undefined for them) exactly when the provider is Bing's, a fingerprint is
\* stored, the lengths are equal and the bytes at the offsets 0, 10, 20, ...
\* are equal; the other bytes do not matter, and without a fingerprint no
\* bytes match.
C22_SampledFingerprintMatch ==
  \A t \in LoadTiles :
    ImageArrived(t) =>
      (~loads[t].data.defined
         <=> /\ pKind = "BingProvider"
             /\ pMissingTileData.defined
             /\ Len(loads[t].response.body) = Len(pMissingTileData.data)
             /\ SampledBytesEqual(pMissingTileData.data, loads[t].response.body))

\* Bytes that differ from the fingerprint, at an offset that is not compared,
\* were taken for the missing tile.
C22_Witness ==
  \E t \in LoadTiles :
    /\ ImageArrived(t) /\ ~loads[t].data.defined
    /\ pMissingTileData.defined
    /\ loads[t].response.body # pMissingTileData.data

\* C29: loadTile always resolves, to an ImageSource or to undefined, and is
\* never rejected, whatever the tile address and the provider's state, a
\* failure of the URL construction included.
C29_LoadTileNeverRejects ==
  \A t \in LoadTiles : loads[t].pc # "requestRejected"

(***************************************************************************)
(* Claims on SpecTree.                                                     *)
(***************************************************************************)
OwnersOf(key) == {i \in 1..Len(owners) : owners[i].id = key}

\* The sum of f[i] over the indices.
RECURSIVE SumOver(_, _)
SumOver(indices, f) ==
  IF indices = {} THEN 0
  ELSE LET i == CHOOSE j \in indices : TRUE
       IN f[i] + SumOver(indices \ {i}, f)

CreateCallsOf(key) ==
  SumOver(OwnersOf(key), [i \in 1..Len(owners) |-> owners[i].createCalls])
ProvidersMadeOf(key) ==
  SumOver(OwnersOf(key), [i \in 1..Len(owners) |-> owners[i].providersMade])
InitializeCallsOf(key) ==
  SumOver(OwnersOf(key), [i \in 1..Len(owners) |-> owners[i].provider.initializeCalls])
TreesBuiltOf(key) ==
  SumOver(OwnersOf(key), [i \in 1..Len(owners) |-> owners[i].treesBuilt])

\* C1: in every interleaving of the references' requests, the requests that
\* carry an equal identity key resolve to one owner and so to one tile tree,
\* and for each key createTileTree, the construction of the provider, its
\* initialize() and the construction of the tree run at most once, also when
\* a request arrives while the first creation is still awaiting.
C1_SingleFlightPerKey ==
  /\ \A r, q \in Refs :
       (refKey[r] = refKey[q] /\ refOwner[r] # 0 /\ refOwner[q] # 0)
          => /\ refOwner[r] = refOwner[q]
             /\ owners[refOwner[r]].tree = owners[refOwner[q]].tree
  /\ \A r \in Refs : refOwner[r] # 0 => owners[refOwner[r]].id = refKey[r]
  /\ \A key \in KeyPool :
       /\ CreateCallsOf(key) <= 1
       /\ ProvidersMadeOf(key) <= 1
       /\ InitializeCallsOf(key) <= 1
       /\ TreesBuiltOf(key) <= 1

\* Two references asked with one key, the second while the creation the
\* first one started was still awaiting.
C1_Witness ==
  \E r, q \in Refs :
    /\ r # q /\ refKey[r] = refKey[q]
    /\ refOwner[r] # 0 /\ refOwner[q] = refOwner[r]
    /\ owners[refOwner[r]].pc \in {"awaitMetadata", "awaitGcs"}
    /\ owners[refOwner[r]].createCalls = 1

MetadataFailed(o) == o.provider.metadata \in {"failed", "malformed"}

\* C10: when the Bing metadata request fails or its body cannot be
\* processed, initialize rejects with BadModel, createTileTree of that key
\* rejects with that error and no tile tree (nor model id) is made for it,
\* and the step changes nothing of the owners of the other keys.
C10_MetadataFailureIsBadModel ==
  /\ [](\A i \in 1..Len(owners) :
          MetadataFailed(owners[i])
             => /\ owners[i].promise = "rejected"
                /\ owners[i].error = "BadModel"
                /\ owners[i].treesBuilt = 0
                /\ owners[i].tree = 0
                /\ owners[i].modelId = 0)
  /\ [][\A i \in 1..Len(owners) :
          (~MetadataFailed(owners[i]) /\ MetadataFailed(owners'[i]))
             => /\ nextTransientId' = nextTransientId
                /\ Len(owners') = Len(owners)
                /\ \A j \in 1..Len(owners) : j # i => owners'[j] = owners[j]]_vars

\* One key's creation was rejected with BadModel and another key's tile tree
\* is loaded.
C10_Witness ==
  \E i, j \in 1..Len(owners) :
    /\ i # j
    /\ MetadataFailed(owners[i]) /\ owners[i].promise = "rejected"
    /\ owners[j].promise = "resolvedTree" /\ owners[j].tree # 0

KnownProvider(id) == id.providerName \in {"BingProvider", "MapBoxProvider"}

\* C11: createTileTree for a provider name other than "BingProvider" and
\* "MapBoxProvider" resolves to undefined: it does not reject, no provider is
\* constructed or initialized, and no request (metadata, probe, converter)
\* is issued for it.
C11_UnknownProviderGivesUndefined ==
  \A i \in 1..Len(owners) :
    (~KnownProvider(owners[i].id) /\ owners[i].createCalls > 0)
       => /\ owners[i].promise = "resolvedUndefined"
          /\ owners[i].error = "none"
          /\ owners[i].providersMade = 0
          /\ owners[i].provider = NoProvider
          /\ owners[i].pc = "done"
          /\ owners[i].treesBuilt = 0 /\ owners[i].tree = 0

\* createTileTree ran for an unknown provider name on a model that has a
\* geodetic location.
C11_Witness ==
  /\ ecefDefined
  /\ \E i \in 1..Len(owners) : ~KnownProvider(owners[i].id) /\ owners[i].createCalls = 1

\* v is u with a leading "http:" replaced by "https:", or u itself when u
\* does not begin with "http:".
IsHttpsRewrite(u, v) ==
  IF Len(u) >= 5 /\ SubSeq(u, 1, 5) = <<"h", "t", "t", "p", ":">>
  THEN v = <<"h", "t", "t", "p", "s", ":">> \o SubSeq(u, 6, Len(u))
  ELSE v = u

BeginsWithHttp(u) == Len(u) >= 5 /\ SubSeq(u, 1, 5) = <<"h", "t", "t", "p", ":">>

\* C15: after a successful initialize the stored logo url and url template
\* are the metadata's urls (the template with its culture filled in) passed
\* through replaceHttpWithHttps: a leading "http:" has become "https:", any
\* other url is unchanged, passing the stored url through it again changes
\* nothing, and no stored url begins with "http:".
C15_StoredUrlsAreHttps ==
  \A i \in 1..Len(owners) :
    owners[i].provider.metadata = "ok" =>
      LET body == owners[i].received[1].body
          logo == owners[i].provider.logoUrl
          template == owners[i].provider.urlTemplate
      IN /\ logo.defined /\ template.defined
         /\ IsHttpsRewrite(body.brandLogoUri.s, logo.s)
         /\ IsHttpsRewrite(ReplaceFirst(body.imageUrl.s,
                                        <<"{", "c", "u", "l", "t", "u", "r", "e", "}">>,
                                        <<"e", "n", "-", "U", "S">>),
                           template.s)
         /\ replaceHttpWithHttps(logo.s) = logo.s
         /\ replaceHttpWithHttps(template.s) = template.s
         /\ ~BeginsWithHttp(logo.s) /\ ~BeginsWithHttp(template.s)

\* A provider was initialized from metadata whose logo url begins with
\* "http:" and stores it with "https:".
C15_Witness ==
  \E i \in 1..Len(owners) :
    /\ owners[i].provider.metadata = "ok"
    /\ BeginsWithHttp(owners[i].received[1].body.brandLogoUri.s)
    /\ owners[i].provider.logoUrl.s = HttpsLogo

\* C19 as stated: the creation for a known provider first awaits the
\* provider's initialize(), then checks the ecef location; without a location
\* it resolves to undefined with no tree and no error.
C19_InitializeThenEcefCheck ==
  \A i \in 1..Len(owners) :
    (KnownProvider(owners[i].id) /\ owners[i].createCalls > 0)
       => /\ owners[i].provider.initializeCalls = 1
          /\ (~ecefDefined /\ owners[i].promise # "pending")
                => /\ owners[i].promise = "resolvedUndefined"
                   /\ owners[i].error = "none"
                   /\ owners[i].treesBuilt = 0

\* C19: the creation for a known provider first checks the model's ecef
\* location: without one it resolves to undefined at once, with no tree, no
\* error and without calling initialize(); with one it awaits initialize()
\* before a model id is taken and a tree is built.
C19_EcefCheckThenInitialize ==
  \A i \in 1..Len(owners) :
    (KnownProvider(owners[i].id) /\ owners[i].createCalls > 0)
       => /\ ~ecefDefined
               => /\ owners[i].promise = "resolvedUndefined"
                  /\ owners[i].error = "none"
                  /\ owners[i].treesBuilt = 0 /\ owners[i].tree = 0
                  /\ owners[i].modelId = 0
                  /\ owners[i].providersMade = 1
                  /\ owners[i].provider.initializeCalls = 0
                  /\ owners[i].received = <<>>
          /\ ecefDefined
               => /\ owners[i].provider.initializeCalls = 1
                  /\ owners[i].pc = "awaitMetadata" => owners[i].modelId = 0
                  /\ (owners[i].treesBuilt > 0 /\ owners[i].id.providerName = "BingProvider")
                        => owners[i].provider.metadata = "ok"

\* On a model without ecef location the trees of a Bing key and of a MapBox
\* key were asked for.
C19_Witness ==
  /\ ~ecefDefined
  /\ \E i, j \in 1..Len(owners) :
       /\ owners[i].id.providerName = "BingProvider" /\ owners[i].createCalls = 1
       /\ owners[j].id.providerName = "MapBoxProvider" /\ owners[j].createCalls = 1

\* C20: whatever the converter probe does, the creation goes on: when the
\* probe throws getGcsConverterAvailable gives false, it gives true exactly
\* when the probe returns one coordinate whose status is not NoGCSDefined,
\* and in every case the tile tree is built and returned, with that value.
C20_ConverterProbeNeverAborts ==
  \A i \in 1..Len(owners) :
    owners[i].gcs # <<>> =>
      LET probe == owners[i].gcs[1]
      IN /\ owners[i].promise = "resolvedTree"
         /\ owners[i].error = "none"
         /\ owners[i].treesBuilt = 1 /\ owners[i].tree # 0
         /\ probe.thrown => ~owners[i].haveConverter
         /\ owners[i].haveConverter
              <=> (~probe.thrown /\ probe.count = 1 /\ ~probe.noGcs)

\* One tree was built after the probe threw and another after it found a
\* converter.
C20_Witness ==
  \E i, j \in 1..Len(owners) :
    /\ owners[i].gcs # <<>> /\ owners[i].gcs[1].thrown
    /\ owners[i].promise = "resolvedTree" /\ ~owners[i].haveConverter
    /\ owners[j].promise = "resolvedTree" /\ owners[j].haveConverter

\* The metadata body has everything initialize reads a field off.
BodyProcessable(body) ==
  /\ body.brandLogoUri.defined /\ body.hasResource
  /\ body.imageUrl.defined /\ body.imageryProviders.defined

\* C21: initialize resolves once the metadata response is processed, with
\* the probe still in flight (or already failed): a processable response
\* gives a resolved initialize and a creation that goes on to the converter
\* whatever the probe does, the tree can be built before the probe settles,
\* and the step that settles the probe changes nothing of the owner but the
\* probe's state and the fingerprint.
C21_ProbeIsNotAwaited ==
  /\ [](\A i \in 1..Len(owners) :
          (owners[i].received # <<>> /\ owners[i].received[1].ok
             /\ BodyProcessable(owners[i].received[1].body))
             => /\ owners[i].provider.metadata = "ok"
                /\ owners[i].promise # "rejected" /\ owners[i].error = "none"
                /\ owners[i].pc \in {"awaitGcs", "done"}
                /\ owners[i].provider.probe \in {"fetching", "rejected", "done"})
  /\ [][\A i \in 1..Len(owners) :
          (owners[i].provider.probe = "fetching" /\ owners'[i].provider.probe # "fetching")
             => /\ owners'[i] = [owners[i] EXCEPT
                                   !.provider.probe = owners'[i].provider.probe,
                                   !.provider.missingTileData =
                                      owners'[i].provider.missingTileData]
                /\ nextTransientId' = nextTransientId
                /\ \A j \in 1..Len(owners) : j # i => owners'[j] = owners[j]]_vars

\* A tile tree was built and returned while the probe of its provider was
\* still in flight.
C21_Witness ==
  \E i \in 1..Len(owners) :
    /\ owners[i].promise = "resolvedTree"
    /\ owners[i].provider.probe = "fetching"

\* The zoom level of the probe a provider has started:
\* this.loadTile(0, 0, this._zoomMax - 1).
ProbeStarted(i) == owners[i].provider.probe # "none"
ProbeZoomLevel(i) == owners[i].provider.zoomMax - 1

\* C23: zoom level 0 is never requested: no loadTile, constructUrl or
\* tileXYToQuadKey call is made with zoomLevel = 0, the probe of the
\* provider's own initialization included.
C23_ZoomZeroNeverRequested ==
  \A i \in 1..Len(owners) : ProbeStarted(i) => ProbeZoomLevel(i) # 0

\* C28: the missing-tile fingerprint of a provider is unset when the provider
\* is created and is written only by the completion, with tile data, of the
\* probe initialize started; while it is unset no tile bytes are discarded as
\* missing, a probe without data leaves it unset, and once set it does not
\* change.
C28_FingerprintWrittenByProbeOnly ==
  /\ [](\A i \in 1..Len(owners) :
          LET provider == owners[i].provider
          IN /\ provider.missingTileData.defined => provider.probe = "done"
             /\ ~provider.missingTileData.defined =>
                  \A body \in TileBodies, contentType \in {"image/jpeg", "image/png"} :
                    Len(body) > 0 =>
                      loadTile(assertionsEnabled, provider.kind, provider.missingTileData,
                               OkResponse(body, contentType)).value.defined)
  /\ [][\A i \in 1..Len(owners) :
          owners'[i].provider.missingTileData # owners[i].provider.missingTileData
            => /\ owners[i].provider.probe = "fetching"
               /\ owners'[i].provider.probe = "done"
               /\ ~owners[i].provider.missingTileData.defined
               /\ owners'[i].provider.missingTileData.defined]_vars

\* The probe of a Bing provider completed with data and left the fingerprint.
C28_Witness ==
  \E i \in 1..Len(owners) :
    /\ owners[i].provider.kind = "BingProvider"
    /\ owners[i].provider.probe = "done"
    /\ owners[i].provider.missingTileData.defined
    /\ Len(owners[i].provider.missingTileData.data) > SampleStride

(***************************************************************************)
(* SpecOrd: compareTileTreeIds applied to three identity keys.             *)
(***************************************************************************)
\* BackgroundMapType.Street, Aerial
MapTypes == {1, 2}
GroundBiases == (0 - MaxBias)..MaxBias
OrdKeyPool ==
  { BackgroundMapTreeId(n, t, g, d) :
      n \in {ProviderNames[k] : k \in 1..Len(ProviderNames)},
      t \in MapTypes, g \in GroundBiases, d \in BOOLEAN }

NoCmp == [ab |-> 0, ba |-> 0, bc |-> 0, ac |-> 0]

OrdIdle == ordPhase = "idle" /\ ordKeys = <<>> /\ ordCmp = NoCmp

OrdInit ==
  /\ assertionsEnabled = FALSE
  /\ ordPhase = "start"
  /\ ordKeys \in OrdKeyPool \X OrdKeyPool \X OrdKeyPool
  /\ ordCmp = NoCmp

OrdCompare ==
  /\ ordPhase = "start"
  /\ ordPhase' = "done"
  /\ ordCmp' = [ab |-> compareTileTreeIds(ordKeys[1], ordKeys[2]),
                ba |-> compareTileTreeIds(ordKeys[2], ordKeys[1]),
                bc |-> compareTileTreeIds(ordKeys[2], ordKeys[3]),
                ac |-> compareTileTreeIds(ordKeys[1], ordKeys[3])]
  /\ UNCHANGED <<assertionsEnabled, ordKeys, notOrd>>

OrdNext == OrdCompare

Sign(n) == IF n < 0 THEN 0 - 1 ELSE IF n > 0 THEN 1 ELSE 0

\* The identity key as the tuple of its fields in the declared order, each
\* field as a number that orders as the field does.
KeyTuple(id) ==
  <<NameRank(id.providerName), id.mapType, id.groundBias, IF id.forDrape THEN 1 ELSE 0>>

\* The sign of the lexicographic comparison of two tuples of equal length.
RECURSIVE LexSign(_, _)
LexSign(s, t) ==
  IF s = <<>> THEN 0
  ELSE IF Head(s) < Head(t) THEN 0 - 1
  ELSE IF Head(s) > Head(t) THEN 1
  ELSE LexSign(Tail(s), Tail(t))

\* C12: compareTileTreeIds is a strict total order on the identity keys: its
\* sign is that of the lexicographic comparison of (providerName, mapType,
\* groundBias, forDrape), it is 0 exactly for equal keys, swapping the
\* arguments negates the sign, and it is transitive.
C12_StrictTotalOrder ==
  ordPhase = "done" =>
    LET a == ordKeys[1]
        b == ordKeys[2]
        c == ordKeys[3]
    IN /\ Sign(ordCmp.ab) = LexSign(KeyTuple(a), KeyTuple(b))
       /\ Sign(ordCmp.bc) = LexSign(KeyTuple(b), KeyTuple(c))
       /\ (ordCmp.ab = 0) <=> (a = b)
       /\ Sign(ordCmp.ab) = 0 - Sign(ordCmp.ba)
       /\ (ordCmp.ab < 0 /\ ordCmp.bc < 0) => ordCmp.ac < 0
       /\ (ordCmp.ab <= 0 /\ ordCmp.bc <= 0) => ordCmp.ac <= 0

\* Three keys compared, in ascending order, that differ in different fields:
\* a and b only in the drape flag, b and c in the ground bias.
C12_Witness ==
  /\ ordPhase = "done"
  /\ ordCmp.ab < 0 /\ ordCmp.bc < 0 /\ ordCmp.ac < 0
  /\ ordKeys[1].forDrape # ordKeys[2].forDrape
  /\ [ordKeys[1] EXCEPT !.forDrape = ordKeys[2].forDrape] = ordKeys[2]
  /\ ordKeys[2].groundBias # ordKeys[3].groundBias

(***************************************************************************)
(* SpecKey: constructUrl of an initialized Bing provider on one tile       *)
(* address.                                                                *)
(***************************************************************************)
NoUrl == [thrown |-> FALSE, subdomain |-> 0, path |-> <<>>]
NoTile == [row |-> 0, column |-> 0, zoomLevel |-> 0]

\* Every address of the levels 1..MaxLevel, and the first addresses of the
\* levels at and beyond the width of the shift.
KeyTiles ==
  { [row |-> r, column |-> c, zoomLevel |-> z] :
      r \in 0..(Pow2(MaxLevel) - 1), c \in 0..(Pow2(MaxLevel) - 1), z \in 1..MaxLevel }
DeepTiles ==
  { [row |-> r, column |-> c, zoomLevel |-> z] :
      r \in 0..3, c \in 0..3, z \in {WordBits, WordBits + 1} }

KeyIdle == kPhase = "idle" /\ kTile = NoTile /\ kUrl = NoUrl

KeyInit ==
  /\ assertionsEnabled \in BOOLEAN
  /\ kPhase = "start"
  /\ kTile \in {t \in KeyTiles : t.row < Pow2(t.zoomLevel) /\ t.column < Pow2(t.zoomLevel)}
                 \cup DeepTiles
  /\ kUrl = NoUrl

KeyConstructUrl ==
  /\ kPhase = "start"
  /\ LET url == constructUrl(assertionsEnabled, "BingProvider", [defined |-> TRUE, count |-> 2],
                             kTile.row, kTile.column, kTile.zoomLevel)
     IN /\ kUrl' = url
        /\ kPhase' = IF url.thrown THEN "thrown" ELSE "done"
  /\ UNCHANGED <<assertionsEnabled, kTile, notKey>>

KeyNext == KeyConstructUrl

\* The quadkey the digit formula gives: for the bit positions z-1 down to 0,
\* '0' + 2*bit(row, i) + bit(column, i).
FormulaQuadKey(t) ==
  [k \in 1..t.zoomLevel |->
     DigitChars[1 + 2 * Bit(t.row, t.zoomLevel - k) + Bit(t.column, t.zoomLevel - k)]]

\* C13 as stated: for every zoom level z >= 1 the quadkey has z characters
\* and is the one of the digit formula.
C13_QuadKeyEveryLevel ==
  kPhase # "start" =>
    /\ kPhase = "done"
    /\ Len(kUrl.path) = kTile.zoomLevel
    /\ kUrl.path = FormulaQuadKey(kTile)

\* C13: for every zoom level 1 <= z <= 32 and every column and row in
\* [0, 2^z), the quadkey has exactly z characters, each in '0'..'3', most
\* significant first, the one for bit position i being
\* '0' + 2*bit(row, i) + bit(column, i).
C13_QuadKeyUpToWordBits ==
  (kPhase # "start" /\ kTile.zoomLevel <= WordBits) =>
    /\ kPhase = "done"
    /\ Len(kUrl.path) = kTile.zoomLevel
    /\ \A k \in 1..Len(kUrl.path) : kUrl.path[k] \in {"0", "1", "2", "3"}
    /\ kUrl.path = FormulaQuadKey(kTile)

\* A quadkey was built at the deepest enumerated level for a tile whose row
\* and column differ in every bit.
C13_Witness ==
  /\ kPhase = "done"
  /\ kTile.zoomLevel = MaxLevel
  /\ kTile.column = Pow2(MaxLevel) - 1 /\ kTile.row = 0
  /\ Len(kUrl.path) = MaxLevel

\* C14 as stated: the quadkey of level 1, column 1, row 1 is "3" and the one
\* of level 2, column 1, row 1 is "30".
C14_QuadKeyExamplesAsStated ==
  (kPhase # "start" /\ kTile.column = 1 /\ kTile.row = 1) =>
    /\ kTile.zoomLevel = 1 => kUrl.path = <<"3">>
    /\ kTile.zoomLevel = 2 => kUrl.path = <<"3", "0">>

\* C14: the quadkey of level 1, column 1, row 1 is "3"; the one of level 2,
\* column 1, row 1 is "03" (the most significant bits of 1 are 0).
C14_QuadKeyExamples ==
  (kPhase # "start" /\ kTile.column = 1 /\ kTile.row = 1) =>
    /\ kTile.zoomLevel = 1 => (kPhase = "done" /\ kUrl.path = <<"3">>)
    /\ kTile.zoomLevel = 2 => (kPhase = "done" /\ kUrl.path = <<"0", "3">>)

\* The url of level 2, column 1, row 1 was constructed.
C14_Witness ==
  /\ kPhase = "done"
  /\ kTile = [row |-> 1, column |-> 1, zoomLevel |-> 2]

(***************************************************************************)
(* SpecSel: MapTileLoaderBase.processSelectedTiles on a list of selected   *)
(* tiles.                                                                  *)
(***************************************************************************)
compareDepthReversed(lhs, rhs) == rhs.depth - lhs.depth

\* (lhs, rhs) => lhs.depth - rhs.depth
compareDepth(lhs, rhs) == lhs.depth - rhs.depth

Range(s) == {s[k] : k \in 1..Len(s)}

\* Array.prototype.sort(comparefn): the elements of the array in an order in
\* which no element is followed by one that comparefn puts before it; the
\* order among elements that compare equal is the engine's choice.
SortResults(array) ==
  { p \in [1..Len(array) -> Range(array)] :
      /\ \A i, j \in 1..Len(array) : i # j => p[i] # p[j]
      /\ \A i, j \in 1..Len(array) : i < j => compareDepth(p[i], p[j]) <= 0 }

\* The tiles that can be selected: their depths repeat.
SelTiles ==
  { [id |-> 1, depth |-> 1], [id |-> 2, depth |-> 2], [id |-> 3, depth |-> 2],
    [id |-> 4, depth |-> 3], [id |-> 5, depth |-> 3] }

\* The lists of distinct tiles of up to MaxSelected tiles, in every order.
SelLists ==
  UNION { { s \in [1..n -> SelTiles] : \A i, j \in 1..n : i # j => s[i] # s[j] } :
          n \in 0..MaxSelected }

SelIdle == selPhase = "idle" /\ selInput = <<>> /\ selArray = <<>> /\ selReturned = <<>>

SelInit ==
  /\ assertionsEnabled = FALSE
  /\ selPhase = "start"
  /\ selInput \in SelLists
  /\ selArray = selInput
  /\ selReturned = <<>>

\* processSelectedTiles: selected.sort(...) sorts in place and returns the
\* input array.
ProcessSelectedTiles ==
  /\ selPhase = "start"
  /\ \E sorted \in SortResults(selArray) :
       /\ selArray' = sorted
       /\ selReturned' = sorted
  /\ selPhase' = "done"
  /\ UNCHANGED <<assertionsEnabled, selInput, notSel>>

SelNext == ProcessSelectedTiles

\* C16: whatever the order of the selected tiles, processSelectedTiles
\* returns the same tiles, none added, dropped or repeated, in non-decreasing
\* depth: no tile comes before a tile of smaller depth.
C16_SortedPermutation ==
  selPhase = "done" =>
    /\ Len(selReturned) = Len(selInput)
    /\ Range(selReturned) = Range(selInput)
    /\ \A i, j \in 1..Len(selReturned) : i # j => selReturned[i] # selReturned[j]
    /\ \A i, j \in 1..Len(selReturned) :
         i < j => selReturned[i].depth <= selReturned[j].depth

\* Three tiles of three depths were passed deepest first and came back.
C16_Witness ==
  /\ selPhase = "done"
  /\ Len(selInput) = 3
  /\ selInput[1].depth > selInput[2].depth /\ selInput[2].depth > selInput[3].depth
  /\ selReturned # selInput

(***************************************************************************)
(* SpecImg: a MapImageryTileTreeReference whose provider and ground bias   *)
(* an application assigns between its treeOwner accesses, with the tile    *)
(* trees its suppliers create from the shared provider instances.          *)
(***************************************************************************)
MaxSuppliers == 2
MaxOwners == 2

\* The provider instances the application holds: one of Bing, one of MapBox.
ProviderIds == 1..2
\* new ImageryTreeSupplier(provider)
ImageryTreeSupplier(provider) == [provider |-> provider]

treeOwnerKeepsSupplier(ref, suppliers) ==
  [ref |-> ref, suppliers |-> suppliers, id |-> ref.groundBias, supplier |-> ref.supplier]

\* MapImageryTileTreeReference.treeOwner up to its getTileTreeOwner call:
\* the reference and the suppliers after it, and the id and the supplier the
\* owner is looked up with.
treeOwner(ref, suppliers) ==
  IF ref.provider # suppliers[ref.supplier].provider
  THEN LET made == Append(suppliers, ImageryTreeSupplier(ref.provider))
       IN [ref |-> [ref EXCEPT !.supplier = Len(made)], suppliers |-> made,
           id |-> ref.groundBias, supplier |-> Len(made)]
  ELSE [ref |-> ref, suppliers |-> suppliers,
        id |-> ref.groundBias, supplier |-> ref.supplier]

\* ImageryTreeSupplier.compareTileTreeIds
compareGroundBias(lhs, rhs) == compareNumbers(lhs, rhs)

NewImageryOwner(supplier, id) ==
  [supplier |-> supplier, id |-> id, status |-> "NotLoaded", pc |-> "idle",
   promise |-> "none"]

\* iModel.tiles.getTileTreeOwner(id, supplier): the owner of this supplier
\* whose id compares equal, or a new one put into the cache.
FindImageryOwner(os, supplier, id) ==
  {i \in 1..Len(os) : os[i].supplier = supplier /\ compareGroundBias(id, os[i].id) = 0}
getImageryTreeOwner(os, supplier, id) ==
  IF FindImageryOwner(os, supplier, id) # {}
  THEN [owners |-> os, index |-> CHOOSE i \in FindImageryOwner(os, supplier, id) : TRUE]
  ELSE [owners |-> Append(os, NewImageryOwner(supplier, id)), index |-> Len(os) + 1]

\* ImageryTreeSupplier.createTileTree -> createTileTreeFromImageryProvider, up
\* to its first await that waits for the outside: the provider after the
\* initialize() call was made on it, and where the creation stands.
createTileTreeFromImageryProvider(imageryProvider, ecef) ==
  IF ~ecef THEN [provider |-> imageryProvider, next |-> "undefined"]
  ELSE [provider |-> [imageryProvider EXCEPT !.initializeCalls = @ + 1],
        next |-> IF imageryProvider.kind = "BingProvider"
                 THEN "awaitMetadata" ELSE "awaitGcs"]

ImgMetadataOutcomes ==
  { [ok |-> FALSE, body |-> GoodBody], [ok |-> TRUE, body |-> GoodBody] }

NoAccess == <<>>

ImgIdle ==
  /\ mEcef = FALSE /\ mProviders = <<>> /\ mRef = <<>> /\ mSuppliers = <<>>
  /\ mOwners = <<>> /\ mProbes = <<>> /\ mNextId = 0 /\ mAccess = NoAccess

\* new MapImageryTileTreeReference(imageryProvider, groundBias, ...)
ImgInit ==
  /\ assertionsEnabled \in BOOLEAN
  /\ mEcef \in BOOLEAN
  /\ mProviders = <<NewBingImageryProvider(1), NewMapBoxImageryProvider(1)>>
  /\ \E p \in ProviderIds, b \in 0..MaxBias :
       mRef = [provider |-> p, groundBias |-> b, supplier |-> 1]
  /\ mSuppliers = <<ImageryTreeSupplier(mRef.provider)>>
  /\ mOwners = <<>>
  /\ mProbes = [p \in ProviderIds |-> 0]
  /\ mNextId = 1
  /\ mAccess = NoAccess

\* reference.provider = p
SetProvider(p) ==
  /\ p # mRef.provider
  /\ mRef' = [mRef EXCEPT !.provider = p]
  /\ UNCHANGED <<assertionsEnabled, mEcef, mProviders, mSuppliers, mOwners, mProbes,
                 mNextId, mAccess, notImg>>

\* reference.groundBias = b
SetGroundBias(b) ==
  /\ b # mRef.groundBias
  /\ mRef' = [mRef EXCEPT !.groundBias = b]
  /\ UNCHANGED <<assertionsEnabled, mEcef, mProviders, mSuppliers, mOwners, mProbes,
                 mNextId, mAccess, notImg>>

\* reference.treeOwner
TreeOwnerAccess ==
  LET t == treeOwner(mRef, mSuppliers)
      got == getImageryTreeOwner(mOwners, t.supplier, t.id)
      this == [provider |-> mRef.provider, groundBias |-> mRef.groundBias,
               supplier |-> t.supplier, id |-> t.id, owner |-> got.index]
      \* `repeated`: the access before was made with the same provider and
      \* ground bias; `same`: it used the same supplier, id and owner.
      access == this @@
                [repeated |-> /\ mAccess # NoAccess
                              /\ mAccess[1].provider = this.provider
                              /\ mAccess[1].groundBias = this.groundBias,
                 same |-> /\ mAccess # NoAccess
                          /\ mAccess[1].supplier = this.supplier
                          /\ mAccess[1].id = this.id
                          /\ mAccess[1].owner = this.owner]
  IN /\ Len(t.suppliers) <= MaxSuppliers /\ Len(got.owners) <= MaxOwners
     /\ mRef' = t.ref
     /\ mSuppliers' = t.suppliers
     /\ mOwners' = got.owners
     /\ mAccess' = <<access>>
     /\ UNCHANGED <<assertionsEnabled, mEcef, mProviders, mProbes, mNextId, notImg>>

\* TileTree.Owner.load() on an owner not loaded yet: its supplier's
\* createTileTree starts.
ImgOwnerLoad(i) ==
  /\ i \in 1..Len(mOwners) /\ mOwners[i].status = "NotLoaded"
  /\ LET pid == mSuppliers[mOwners[i].supplier].provider
         c == createTileTreeFromImageryProvider(mProviders[pid], mEcef)
     IN /\ mProviders' = [mProviders EXCEPT ![pid] = c.provider]
        /\ mOwners' = [mOwners EXCEPT
             ![i].status = IF c.next = "undefined" THEN "NotFound" ELSE "Loading",
             ![i].pc = IF c.next = "undefined" THEN "done" ELSE c.next,
             ![i].promise = IF c.next = "undefined" THEN "resolvedUndefined" ELSE "pending"]
        /\ mNextId' = IF c.next = "awaitGcs" THEN mNextId + 1 ELSE mNextId
  /\ UNCHANGED <<assertionsEnabled, mEcef, mRef, mSuppliers, mProbes, mAccess, notImg>>

\* The metadata request of the initialize() an owner's creation awaits
\* settles: initialize runs on the supplier's provider instance.
ImgMetadataSettles(i) ==
  /\ i \in 1..Len(mOwners) /\ mOwners[i].pc = "awaitMetadata"
  /\ LET pid == mSuppliers[mOwners[i].supplier].provider
     IN \E outcome \in ImgMetadataOutcomes :
          LET r == initialize(assertionsEnabled, mProviders[pid], outcome.ok, outcome.body)
          IN /\ mProviders' = [mProviders EXCEPT ![pid] = r.provider]
             /\ IF r.rejected
                THEN /\ mOwners' = [mOwners EXCEPT ![i].pc = "done",
                                                   ![i].promise = "rejected",
                                                   ![i].status = "NotFound"]
                     /\ UNCHANGED <<mNextId, mProbes>>
                ELSE /\ mOwners' = [mOwners EXCEPT ![i].pc = "awaitGcs"]
                     /\ mNextId' = mNextId + 1
                     /\ mProbes' = [mProbes EXCEPT ![pid] =
                                      IF r.provider.probe = "fetching" THEN @ + 1 ELSE @]
  /\ UNCHANGED <<assertionsEnabled, mEcef, mRef, mSuppliers, mAccess, notImg>>

\* The converter answers; the loader and the tile tree are constructed.
ImgGcsSettles(i) ==
  /\ i \in 1..Len(mOwners) /\ mOwners[i].pc = "awaitGcs"
  /\ \E probe \in GcsProbes :
       IF getGcsConverterAvailable(probe).rejected
       THEN mOwners' = [mOwners EXCEPT ![i].pc = "done",
                                       ![i].promise = "rejected",
                                       ![i].status = "NotFound"]
       ELSE mOwners' = [mOwners EXCEPT ![i].pc = "done",
                                       ![i].promise = "resolvedTree",
                                       ![i].status = "Loaded"]
  /\ UNCHANGED <<assertionsEnabled, mEcef, mProviders, mRef, mSuppliers, mProbes,
                 mNextId, mAccess, notImg>>

\* The request of one missing-tile probe of provider p settles.
ImgProbeSettles(p) ==
  /\ mProbes[p] > 0
  /\ \E tileResponse \in ProbeResponses :
       LET tileData == loadTile(assertionsEnabled, mProviders[p].kind,
                                mProviders[p].missingTileData, tileResponse).value
       IN mProviders' = [mProviders EXCEPT
            ![p].probe = IF mProbes[p] = 1 THEN "done" ELSE "fetching",
            ![p].missingTileData =
               IF tileData.defined THEN [defined |-> TRUE, data |-> tileData.data] ELSE @]
  /\ mProbes' = [mProbes EXCEPT ![p] = @ - 1]
  /\ UNCHANGED <<assertionsEnabled, mEcef, mRef, mSuppliers, mOwners, mNextId,
                 mAccess, notImg>>

\* The application keeps the reference's provider and varies its ground bias
\* while the trees load.
ImgNext ==
  \/ \E b \in 0..MaxBias : SetGroundBias(b)
  \/ TreeOwnerAccess
  \/ \E i \in 1..MaxOwners :
       \/ ImgOwnerLoad(i)
       \/ ImgMetadataSettles(i)
       \/ ImgGcsSettles(i)
  \/ \E p \in ProviderIds : ImgProbeSettles(p)

\* SpecRef: the application assigns provider and ground bias between the
\* treeOwner accesses; no tree is loaded.
RefNext ==
  \/ \E p \in ProviderIds : SetProvider(p)
  \/ \E b \in 0..MaxBias : SetGroundBias(b)
  \/ TreeOwnerAccess

\* The configuration initialize() fills in.
Configuration(provider) ==
  <<provider.zoomMin, provider.zoomMax, provider.tileHeight, provider.tileWidth,
    provider.urlTemplate, provider.urlSubdomains, provider.logoUrl,
    provider.attributions>>

\* C25: once initialize() has resolved on a provider instance, no later
\* operation changes its configuration (zoom bounds, tile dimensions, URL
\* template, subdomains, logo URL, attribution list); in particular the
\* attribution list never grows.
C25_ConfigurationSetOnce ==
  [][\A p \in ProviderIds :
       mProviders[p].metadata = "ok"
         => Configuration(mProviders'[p]) = Configuration(mProviders[p])]_vars

\* C27: every treeOwner access looks the tree up by the reference's current
\* groundBias through a supplier whose provider is its current provider; a
\* supplier is made only when the current provider differs from the
\* supplier's, so an access repeated with the same provider and groundBias
\* uses the same supplier and key.
C27_SupplierFollowsProvider ==
  /\ [](\A k \in 1..Len(mAccess) :
          /\ mSuppliers[mAccess[k].supplier].provider = mAccess[k].provider
          /\ mAccess[k].id = mAccess[k].groundBias
          /\ mOwners[mAccess[k].owner].supplier = mAccess[k].supplier
          /\ mOwners[mAccess[k].owner].id = mAccess[k].groundBias
          /\ (mAccess[k].repeated => mAccess[k].same))
  /\ [][mSuppliers' # mSuppliers
          => /\ mRef.provider # mSuppliers[mRef.supplier].provider
             /\ mSuppliers' = Append(mSuppliers, ImageryTreeSupplier(mRef.provider))
             /\ mRef'.supplier = Len(mSuppliers')]_vars

\* The provider was switched and a supplier made for it, and then an access
\* was repeated with that provider and the same ground bias.
C27_Witness ==
  /\ mAccess # NoAccess
  /\ mAccess[1].repeated /\ mAccess[1].same
  /\ mAccess[1].supplier > 1

(***************************************************************************)
(* SpecCopy: decoration asks a BingImageryProvider for the copyright logo  *)
(* and message of the viewports it draws into.                             *)
(***************************************************************************)
MaxViewports == 3
ViewportIds == 1..MaxViewports

\* An element that does not exist (logoImage undefined).
NoElement == 0
NoElements == <<>>

getCopyrightElementsUncached(elements, logoUrl, created, viewportId) ==
  LET attribution == created + 1
      logoImage == IF logoUrl.defined THEN created + 2 ELSE NoElement
      elems == [logoImage |-> logoImage, attribution |-> attribution]
  IN [elements |-> [elements EXCEPT ![viewportId] = <<elems>>],
      created |-> IF logoUrl.defined THEN created + 2 ELSE created + 1,
      elems |-> elems]

\* BingImageryProvider.getCopyrightElements: the cached entry of the
\* viewport, or a new span, and a new Image when the logo URL is known, put
\* into the map.
getCopyrightElements(elements, logoUrl, created, viewportId) ==
  IF elements[viewportId] # NoElements
  THEN [elements |-> elements, created |-> created, elems |-> elements[viewportId][1]]
  ELSE LET attribution == created + 1
           logoImage == IF logoUrl.defined THEN created + 2 ELSE NoElement
           elems == [logoImage |-> logoImage, attribution |-> attribution]
       IN [elements |-> [elements EXCEPT ![viewportId] = <<elems>>],
           created |-> IF logoUrl.defined THEN created + 2 ELSE created + 1,
           elems |-> elems]

CopyIdle ==
  /\ vLogoUrl = NoString /\ vElements = <<>> /\ vCreated = 0 /\ vReturn = <<>>

\* A provider before its metadata arrived (no logo URL) or after.
CopyInit ==
  /\ assertionsEnabled = FALSE
  /\ vLogoUrl \in {NoString, Str(HttpsLogo)}
  /\ vElements = [v \in ViewportIds |-> NoElements]
  /\ vCreated = 0
  /\ vReturn = <<>>

\* getCopyrightImage(tileProvider, viewport)
GetCopyrightImage(v) ==
  /\ LET r == getCopyrightElements(vElements, vLogoUrl, vCreated, v)
     IN /\ vElements' = r.elements
        /\ vCreated' = r.created
        /\ vReturn' = << [op |-> "image", viewportId |-> v,
                          seen |-> vElements[v] # NoElements,
                          created |-> r.created - vCreated,
                          value |-> r.elems.logoImage] >>
  /\ UNCHANGED <<assertionsEnabled, vLogoUrl, notCopy>>

\* getCopyrightMessage(tileProvider, viewport)
GetCopyrightMessage(v) ==
  /\ LET r == getCopyrightElements(vElements, vLogoUrl, vCreated, v)
     IN /\ vElements' = r.elements
        /\ vCreated' = r.created
        /\ vReturn' = << [op |-> "message", viewportId |-> v,
                          seen |-> vElements[v] # NoElements,
                          created |-> r.created - vCreated,
                          value |-> r.elems.attribution] >>
  /\ UNCHANGED <<assertionsEnabled, vLogoUrl, notCopy>>

CopyNext ==
  \E v \in ViewportIds : GetCopyrightImage(v) \/ GetCopyrightMessage(v)

\* C26: the provider keeps at most one entry per viewport id; a request for a
\* viewport id already seen returns the elements made at its first request
\* and creates nothing; the cached ids only grow and no entry is removed or
\* replaced.
C26_OneEntryPerViewport ==
  /\ [](\A k \in 1..Len(vReturn) :
          /\ vElements[vReturn[k].viewportId] # NoElements
          /\ vReturn[k].value =
               IF vReturn[k].op = "image"
               THEN vElements[vReturn[k].viewportId][1].logoImage
               ELSE vElements[vReturn[k].viewportId][1].attribution
          /\ (vReturn[k].seen => vReturn[k].created = 0))
  /\ [](\A v, w \in ViewportIds :
          (v # w /\ vElements[v] # NoElements /\ vElements[w] # NoElements)
            => vElements[v][1].attribution # vElements[w][1].attribution)
  /\ [][\A v \in ViewportIds :
          vElements[v] # NoElements => vElements'[v] = vElements[v]]_vars

\* The logo of a viewport was asked for again after other viewports had got
\* their elements, and came from the cache.
C26_Witness ==
  /\ vReturn # <<>>
  /\ vReturn[1].seen /\ vReturn[1].op = "image" /\ vReturn[1].value # NoElement
  /\ vReturn[1].value < vCreated - 1
  /\ \A v \in ViewportIds : vElements[v] # NoElements

(***************************************************************************)
(* SpecShift: the shifts of tile addressing, on every level a provider     *)
(* requests: BingImageryProvider.tileXYToQuadKey, and getEPSG3857Extent of *)
(* a provider derived from ImageryProviderEPSG3857.                        *)
(***************************************************************************)
MaxZoomLevel == 33
\* 256 = 2^8, the tile size in pixels
TileSizeBits == 8

\* (2^e) << count on 32-bit integers, for e < 31: the count is taken modulo
\* 32, bit 31 is the sign, and the bits above it are lost.
ShiftLeft32OfPow2(e, count) ==
  LET k == e + (count % WordBits)
  IN IF k < WordBits - 1 THEN Pow2(k)
     ELSE IF k = WordBits - 1 THEN (0 - Pow2(k - 1)) - Pow2(k - 1)
     ELSE 0

QuadKeyMaskOffByOne(i) == ShiftLeft32OfPow2(0, i)

\* const mask: number = 1 << (i - 1);
QuadKeyMask(i) == ShiftLeft32OfPow2(0, i - 1)

\* The masks of tileXYToQuadKey in the order of its loop, i = zoomLevel .. 1.
QuadKeyMasks(zoomLevel) == [k \in 1..zoomLevel |-> QuadKeyMask(zoomLevel + 1 - k)]

\* getEPSG3857Extent up to its grid: the longitudes and latitudes it returns
\* are computed from mapSize, leftGrid and topGrid alone.
getEPSG3857Extent(row, column, zoomLevel) ==
  [mapSize |-> ShiftLeft32OfPow2(TileSizeBits, zoomLevel),
   leftGrid |-> Pow2(TileSizeBits) * column,
   topGrid |-> Pow2(TileSizeBits) * row]

NoShiftOut == [mapSize |-> 0, leftGrid |-> 0, topGrid |-> 0, masks |-> <<>>, key |-> <<>>]

ShiftIdle ==
  /\ sKind = "none" /\ sZoomMax = 0 /\ sTile = NoTile /\ sPhase = "idle"
  /\ sOut = NoShiftOut

\* minimumZoomLevel: Bing's displayable levels start at 1; a derived provider
\* may start at the root.
minimumZoomLevel(kind) == IF kind = "BingProvider" THEN 1 ELSE 0

\* A provider with its zoom range (Bing's maximum comes from its metadata, a
\* derived provider declares its own) and a tile of a level in that range.
ShiftInit ==
  /\ assertionsEnabled = FALSE
  /\ sKind \in {"BingProvider", "EPSG3857Provider"}
  /\ sZoomMax \in minimumZoomLevel(sKind)..MaxZoomLevel
  /\ \E z \in minimumZoomLevel(sKind)..sZoomMax, r \in 0..1, c \in 0..1 :
       /\ (z = 0 => (r = 0 /\ c = 0))
       /\ sTile = [row |-> r, column |-> c, zoomLevel |-> z]
  /\ sPhase = "start"
  /\ sOut = NoShiftOut

\* constructUrl of the derived provider calls getEPSG3857Extent.
ShiftExtent ==
  /\ sPhase = "start" /\ sKind = "EPSG3857Provider"
  /\ LET e == getEPSG3857Extent(sTile.row, sTile.column, sTile.zoomLevel)
     IN sOut' = [NoShiftOut EXCEPT !.mapSize = e.mapSize, !.leftGrid = e.leftGrid,
                                   !.topGrid = e.topGrid]
  /\ sPhase' = "done"
  /\ UNCHANGED <<assertionsEnabled, sKind, sZoomMax, sTile, notShift>>

\* constructUrl of Bing calls tileXYToQuadKey(column, row, zoomLevel).
ShiftQuadKey ==
  /\ sPhase = "start" /\ sKind = "BingProvider"
  /\ sOut' = [NoShiftOut EXCEPT
                !.masks = QuadKeyMasks(sTile.zoomLevel),
                !.key = tileXYToQuadKey(assertionsEnabled, sTile.column, sTile.row,
                                        sTile.zoomLevel).key]
  /\ sPhase' = "done"
  /\ UNCHANGED <<assertionsEnabled, sKind, sZoomMax, sTile, notShift>>

ShiftNext == ShiftExtent \/ ShiftQuadKey

\* v is 2^e, as a 32-bit integer can be only below 2^31.
ExactPow2(v, e) == e < WordBits - 1 /\ v = Pow2(e)

\* C30 (as stated): for every zoom level a provider requests, mapSize =
\* 256 << zoomLevel is positive and equals 256 * 2^zoomLevel, and every mask
\* 1 << (i - 1) of tileXYToQuadKey equals 2^(i - 1).
C30_ShiftsExactOnEveryLevel ==
  sPhase = "done" =>
    /\ sKind = "EPSG3857Provider"
         => (sOut.mapSize > 0 /\ ExactPow2(sOut.mapSize, TileSizeBits + sTile.zoomLevel))
    /\ sKind = "BingProvider"
         => \A k \in 1..Len(sOut.masks) : ExactPow2(sOut.masks[k], sTile.zoomLevel - k)

\* C30 (amended): mapSize is positive and equals 256 * 2^zoomLevel up to
\* level 22; it is negative at level 23 and 0 from level 24 to 31.  The masks
\* equal 2^(i - 1) up to i = 31; the mask of i = 32 is negative.
C30_ShiftsExactBelowWordWidth ==
  sPhase = "done" =>
    /\ sKind = "EPSG3857Provider" =>
         /\ sTile.zoomLevel <= 22
              => (sOut.mapSize > 0 /\ sOut.mapSize = 256 * Pow2(sTile.zoomLevel))
         /\ sTile.zoomLevel = 23 => sOut.mapSize < 0
         /\ (sTile.zoomLevel >= 24 /\ sTile.zoomLevel <= 31) => sOut.mapSize = 0
    /\ sKind = "BingProvider" =>
         \A k \in 1..Len(sOut.masks) :
           LET i == sTile.zoomLevel + 1 - k
           IN /\ i <= 31 => sOut.masks[k] = Pow2(i - 1)
              /\ i = 32 => sOut.masks[k] < 0

\* The deepest level with exact masks, and the deepest with an exact map size.
C30_Witness ==
  /\ sPhase = "done"
  /\ \/ /\ sKind = "BingProvider" /\ sTile.zoomLevel = 31
        /\ sOut.masks[1] = Pow2(30) /\ sOut.masks[31] = 1
     \/ /\ sKind = "EPSG3857Provider" /\ sTile.zoomLevel = 22
        /\ sOut.mapSize = Pow2(30)

(***************************************************************************)
(* The specifications: each starts its own runs and leaves the state of    *)
(* the others idle.                                                        *)
(***************************************************************************)
InitQuad ==
  /\ QuadInit
  /\ CovIdle
  /\ LoadIdle
  /\ TreeIdle
  /\ OrdIdle
  /\ KeyIdle
  /\ SelIdle
  /\ ImgIdle
  /\ CopyIdle
  /\ ShiftIdle

SpecQuad == InitQuad /\ [][QuadNext]_vars

InitCov ==
  /\ CovInit
  /\ QuadIdle
  /\ LoadIdle
  /\ TreeIdle
  /\ OrdIdle
  /\ KeyIdle
  /\ SelIdle
  /\ ImgIdle
  /\ CopyIdle
  /\ ShiftIdle

SpecCov == InitCov /\ [][CovNext]_vars

InitLoad ==
  /\ LoadInit
  /\ QuadIdle
  /\ CovIdle
  /\ TreeIdle
  /\ OrdIdle
  /\ KeyIdle
  /\ SelIdle
  /\ ImgIdle
  /\ CopyIdle
  /\ ShiftIdle

SpecLoad == InitLoad /\ [][LoadNext]_vars

InitTree ==
  /\ TreeInit
  /\ QuadIdle
  /\ CovIdle
  /\ LoadIdle
  /\ OrdIdle
  /\ KeyIdle
  /\ SelIdle
  /\ ImgIdle
  /\ CopyIdle
  /\ ShiftIdle

SpecTree == InitTree /\ [][TreeNext]_vars

InitOrd ==
  /\ OrdInit
  /\ QuadIdle
  /\ CovIdle
  /\ LoadIdle
  /\ TreeIdle
  /\ KeyIdle
  /\ SelIdle
  /\ ImgIdle
  /\ CopyIdle
  /\ ShiftIdle

SpecOrd == InitOrd /\ [][OrdNext]_vars

InitKey ==
  /\ KeyInit
  /\ QuadIdle
  /\ CovIdle
  /\ LoadIdle
  /\ TreeIdle
  /\ OrdIdle
  /\ SelIdle
  /\ ImgIdle
  /\ CopyIdle
  /\ ShiftIdle

SpecKey == InitKey /\ [][KeyNext]_vars

InitSel ==
  /\ SelInit
  /\ QuadIdle
  /\ CovIdle
  /\ LoadIdle
  /\ TreeIdle
  /\ OrdIdle
  /\ KeyIdle
  /\ ImgIdle
  /\ CopyIdle
  /\ ShiftIdle

SpecSel == InitSel /\ [][SelNext]_vars

InitImg ==
  /\ ImgInit
  /\ QuadIdle
  /\ CovIdle
  /\ LoadIdle
  /\ TreeIdle
  /\ OrdIdle
  /\ KeyIdle
  /\ SelIdle
  /\ CopyIdle
  /\ ShiftIdle

SpecImg == InitImg /\ [][ImgNext]_vars

InitRef ==
  /\ ImgInit
  /\ QuadIdle
  /\ CovIdle
  /\ LoadIdle
  /\ TreeIdle
  /\ OrdIdle
  /\ KeyIdle
  /\ SelIdle
  /\ CopyIdle
  /\ ShiftIdle

SpecRef == InitRef /\ [][RefNext]_vars

InitCopy ==
  /\ CopyInit
  /\ QuadIdle
  /\ CovIdle
  /\ LoadIdle
  /\ TreeIdle
  /\ OrdIdle
  /\ KeyIdle
  /\ SelIdle
  /\ ImgIdle
  /\ ShiftIdle

SpecCopy == InitCopy /\ [][CopyNext]_vars

InitShift ==
  /\ ShiftInit
  /\ QuadIdle
  /\ CovIdle
  /\ LoadIdle
  /\ TreeIdle
  /\ OrdIdle
  /\ KeyIdle
  /\ SelIdle
  /\ ImgIdle
  /\ CopyIdle

SpecShift == InitShift /\ [][ShiftNext]_vars

==========================================================================
